---- MODULE Spec2Model ----
(***************************************************************************)
(* Text-to-record extraction engine of renovation-tracker: the transaction,*)
(* task, layout and moving-guide parsers, modelled on character strings.   *)
(* A Python str is a TLA+ string; Len, SubSeq and \o act on its characters.*)
(* The emoji prefix of the priority labels is not written (the module is   *)
(* ASCII): "High", "Medium", "Low" stand for the three dropdown values.    *)
(***************************************************************************)
EXTENDS Integers, Sequences, FiniteSets, TLC

VARIABLES op, text, source_file, moving_day_date, now, lines, i, cur, out,
          result, pc, run, first,
          call, worksheet_name, worksheet, df, mode, add_timestamp, values,
          append, attempt, sink_calls, returned, before, calls

vars == <<op, text, source_file, moving_day_date, now, lines, i, cur, out,
          result, pc, run, first,
          call, worksheet_name, worksheet, df, mode, add_timestamp, values,
          append, attempt, sink_calls, returned, before, calls>>

\* the variables of a parser call, but for its position
parser_vars == <<op, text, source_file, moving_day_date, now, lines, i, cur, out,
                 result, run, first>>

\* the variables of a GoogleSheetsManager call
sheet_vars == <<call, worksheet_name, worksheet, df, mode, add_timestamp, values,
                append, attempt, sink_calls, returned, before, calls>>

\* ------------------------------------------------------------------------
\* Python str primitives
\* ------------------------------------------------------------------------
None == "<None>"

Ch(s, k) == IF 1 <= k /\ k <= Len(s) THEN SubSeq(s, k, k) ELSE ""

CharsOf(s) == {SubSeq(s, k, k) : k \in 1..Len(s)}

UpperChars == "ABCDEFGHIJKLMNOPQRSTUVWXYZ"
LowerChars == "abcdefghijklmnopqrstuvwxyz"
DigitChars == "0123456789"

UpperSet == CharsOf(UpperChars)
LowerSet == CharsOf(LowerChars)
DigitSet == CharsOf(DigitChars)
SpaceSet == {" ", "\t", "\n", "\r"}
WordSet  == UpperSet \cup LowerSet \cup DigitSet \cup {"_"}

LowerTable ==
    [c \in UpperSet |->
        LET k == CHOOSE k \in 1..Len(UpperChars) : SubSeq(UpperChars, k, k) = c
        IN  SubSeq(LowerChars, k, k)]

IsSpace(c) == c \in SpaceSet
IsDigit(c) == c \in DigitSet
IsWord(c)  == c \in WordSet

SetMin(S) == CHOOSE x \in S : \A y \in S : x <= y
SetMax(S) == CHOOSE x \in S : \A y \in S : y <= x

RECURSIVE lower(_)
lower(s) ==
    IF s = "" THEN ""
    ELSE IF Len(s) = 1 THEN (IF s \in UpperSet THEN LowerTable[s] ELSE s)
    ELSE LET h == Len(s) \div 2
         IN  lower(SubSeq(s, 1, h)) \o lower(SubSeq(s, h + 1, Len(s)))

\* s.find(sub, from): the least index >= from where sub occurs, 0 when none
find(s, sub, from) ==
    LET hits == {k \in from..(Len(s) - Len(sub) + 1) : SubSeq(s, k, k + Len(sub) - 1) = sub}
    IN  IF hits = {} THEN 0 ELSE SetMin(hits)

\* sub in s
contains(s, sub) == find(s, sub, 1) # 0

startswith(s, sub) == Len(sub) <= Len(s) /\ SubSeq(s, 1, Len(sub)) = sub

strip(s) ==
    LET keep == {k \in 1..Len(s) : ~IsSpace(SubSeq(s, k, k))}
    IN  IF keep = {} THEN "" ELSE SubSeq(s, SetMin(keep), SetMax(keep))

\* s.strip(chars)
strip_chars(s, chars) ==
    LET keep == {k \in 1..Len(s) : SubSeq(s, k, k) \notin chars}
    IN  IF keep = {} THEN "" ELSE SubSeq(s, SetMin(keep), SetMax(keep))

\* s.split('\n')
RECURSIVE split_lines(_)
split_lines(s) ==
    LET k == find(s, "\n", 1)
    IN  IF k = 0 THEN <<s>>
        ELSE <<SubSeq(s, 1, k - 1)>> \o split_lines(SubSeq(s, k + 1, Len(s)))

\* len(s.split()): the number of whitespace-separated words
word_count(s) ==
    Cardinality({k \in 1..Len(s) :
        /\ ~IsSpace(SubSeq(s, k, k))
        /\ (k = 1 \/ IsSpace(SubSeq(s, k - 1, k - 1)))})

\* sep.join(parts)
RECURSIVE join(_, _)
join(sep, parts) ==
    IF parts = <<>> THEN ""
    ELSE IF Len(parts) = 1 THEN parts[1]
    ELSE parts[1] \o sep \o join(sep, Tail(parts))

\* the end of the longest run of characters of class S that starts at k
\* (k - 1 when the character at k is not in S)
run_end(s, k, S) ==
    IF k > Len(s) THEN k - 1
    ELSE SetMin({j \in k..(Len(s) + 1) : j = Len(s) + 1 \/ SubSeq(s, j, j) \notin S}) - 1

\* re.sub(r'[,:;]+$', '', value)
RECURSIVE strip_trailing_punct(_)
strip_trailing_punct(s) ==
    IF s # "" /\ SubSeq(s, Len(s), Len(s)) \in {",", ":", ";"}
    THEN strip_trailing_punct(SubSeq(s, 1, Len(s) - 1))
    ELSE s

\* [line.strip() for line in text.split('\n') if line.strip()]
clean_lines(t) ==
    LET raw == split_lines(t)
        stripped == [k \in 1..Len(raw) |-> strip(raw[k])]
    IN  SelectSeq(stripped, LAMBDA l : l # "")

\* ------------------------------------------------------------------------
\* datetime: dates as [year, month, day]; arithmetic through proleptic
\* Gregorian ordinals as datetime does
\* ------------------------------------------------------------------------
IsLeap(y) == y % 4 = 0 /\ (y % 100 # 0 \/ y % 400 = 0)

DaysInMonth(y, m) ==
    IF m = 2 THEN (IF IsLeap(y) THEN 29 ELSE 28)
    ELSE IF m \in {4, 6, 9, 11} THEN 30 ELSE 31

RECURSIVE DaysBeforeMonth(_, _)
DaysBeforeMonth(y, m) ==
    IF m = 1 THEN 0 ELSE DaysBeforeMonth(y, m - 1) + DaysInMonth(y, m - 1)

DaysBeforeYear(y) ==
    LET p == y - 1 IN p * 365 + (p \div 4) - (p \div 100) + (p \div 400)

toordinal(d) == DaysBeforeYear(d.year) + DaysBeforeMonth(d.year, d.month) + d.day

fromordinal(n) ==
    LET n0   == n - 1
        n400 == n0 \div 146097
        r400 == n0 % 146097
        n100 == r400 \div 36524
        r100 == r400 % 36524
        n4   == r100 \div 1461
        r4   == r100 % 1461
        n1   == r4 \div 365
        r1   == r4 % 365
        y    == n400 * 400 + n100 * 100 + n4 * 4 + n1 + 1
    IN  IF n1 = 4 \/ n100 = 4
        THEN [year |-> y - 1, month |-> 12, day |-> 31]
        ELSE LET m == CHOOSE m \in 1..12 :
                        /\ DaysBeforeMonth(y, m) <= r1
                        /\ r1 < DaysBeforeMonth(y, m) + DaysInMonth(y, m)
             IN  [year |-> y, month |-> m, day |-> r1 - DaysBeforeMonth(y, m) + 1]

\* date + timedelta(days=n)
add_days(d, n) == fromordinal(toordinal(d) + n)

digit(n) == SubSeq(DigitChars, n + 1, n + 1)

\* '%0<w>d' % n
RECURSIVE zero_pad(_, _)
zero_pad(n, w) ==
    IF w = 0 THEN "" ELSE zero_pad(n \div 10, w - 1) \o digit(n % 10)

\* a strftime with the US format string "%m/%d/%Y"
strftime_month_first(d) ==
    zero_pad(d.month, 2) \o "/" \o zero_pad(d.day, 2) \o "/" \o zero_pad(d.year, 4)

\* d.strftime("%Y-%m-%d")
strftime(d) == zero_pad(d.year, 4) \o "-" \o zero_pad(d.month, 2) \o "-" \o zero_pad(d.day, 2)

digit_value(c) == (CHOOSE k \in 1..10 : SubSeq(DigitChars, k, k) = c) - 1

RECURSIVE int_of(_)
int_of(s) ==
    IF s = "" THEN 0
    ELSE int_of(SubSeq(s, 1, Len(s) - 1)) * 10 + digit_value(SubSeq(s, Len(s), Len(s)))

\* datetime.strptime(s, "%Y-%m-%d") for a well-formed s
strptime(s) ==
    [year  |-> int_of(SubSeq(s, 1, 4)),
     month |-> int_of(SubSeq(s, 6, 7)),
     day   |-> int_of(SubSeq(s, 9, 10))]

\* ------------------------------------------------------------------------
\* dict and DataFrame
\* ------------------------------------------------------------------------
\* a partial record: a dict, as a function from the keys set so far
EmptyDict == <<>>

dict_get(d, k) == IF k \in DOMAIN d THEN d[k] ELSE None

dict_get_default(d, k, default) == IF k \in DOMAIN d THEN d[k] ELSE default

dict_set(d, k, v) == (k :> v) @@ d

\* Python truth of an Optional[str]
truthy(v) == v # None /\ v # ""

\* an emitted record: a dict literal, as the sequence of its <<key, value>>
\* pairs in insertion order
record_keys(r) == [k \in 1..Len(r) |-> r[k][1]]

field(r, key) ==
    LET k == CHOOSE k \in 1..Len(r) : r[k][1] = key IN r[k][2]

\* pd.DataFrame(records): the columns are the keys of the records in order of
\* first appearance; no records, no columns
DataFrame(records) ==
    [columns |-> IF records = <<>> THEN <<>> ELSE record_keys(records[1]),
     rows    |-> records]

\* pd.DataFrame(columns=[...])
EmptyDataFrame(columns) == [columns |-> columns, rows |-> <<>>]

\* ------------------------------------------------------------------------
\* regular-expression helpers
\* ------------------------------------------------------------------------
\* a or b
first_found(a, b) == IF a # None THEN a ELSE b

\* value.strip() of an Optional[str]
strip_found(v) == IF v # None THEN strip(v) ELSE None

\* m.group(0) of a match m == <<start, end>> of s, None when there is none
match_text(s, m) == IF m[1] # 0 THEN SubSeq(s, m[1], m[2]) ELSE None

\* n digits at s[p..p+n-1]
digits_at(s, p, n) ==
    /\ p >= 1
    /\ p + n - 1 <= Len(s)
    /\ \A k \in p..(p + n - 1) : IsDigit(SubSeq(s, k, k))

\* re.search of a pattern given by its match-at operator m (the end of the
\* match that starts at k, 0 when none): <<start, end>> of the leftmost
\* match, <<0, 0>> when none
search(s, m(_, _)) ==
    LET hits == {k \in 1..Len(s) : m(s, k) # 0}
    IN  IF hits = {} THEN <<0, 0>> ELSE <<SetMin(hits), m(s, SetMin(hits))>>

\* ------------------------------------------------------------------------
\* TransactionParser
\* ------------------------------------------------------------------------
TRANSACTION_COLUMNS ==
    <<"Source File", "Date Added", "Transaction Date", "Category",
      "Description", "Amount", "Payment Method", "Vendor",
      "Status", "Notes", "Receipt Link">>

TransactionParser_category_keywords ==
    << <<"Materials", <<"cabinets", "flooring", "tile", "paint", "supplies", "materials", "lumber", "hardware">> >>,
       <<"Labor", <<"labor", "contractor", "installation", "plumber", "electrician", "worker">> >>,
       <<"Utilities", <<"electric", "water", "gas", "utility", "utilities">> >>,
       <<"Property Tax", <<"tax", "property tax">> >>,
       <<"Insurance", <<"insurance">> >>,
       <<"Permits", <<"permit", "permits", "license">> >>,
       <<"Equipment Rental", <<"rental", "rent", "equipment">> >> >>

TransactionParser_status_keywords ==
    << <<"Paid", <<"paid", "completed", "done">> >>,
       <<"Pending", <<"pending", "due", "outstanding">> >>,
       <<"Reimbursed", <<"reimbursed", "refunded">> >>,
       <<"Disputed", <<"disputed", "issue", "problem">> >> >>

\* a classifier that hands back the text where no keyword is found
classify_or_text(table, text_lower, default) ==
    LET hits == {c \in 1..Len(table) :
                    \E k \in 1..Len(table[c][2]) : contains(text_lower, table[c][2][k])}
    IN  IF hits = {} THEN text_lower ELSE table[SetMin(hits)][1]

\* a classifier in which the last-declared category with a hit wins
classify_last_declared(table, text_lower, default) ==
    LET hits == {c \in 1..Len(table) :
                    \E k \in 1..Len(table[c][2]) : contains(text_lower, table[c][2][k])}
    IN  IF hits = {} THEN default ELSE table[SetMax(hits)][1]

\* for category, keywords in table.items(): for keyword in keywords:
\*     if keyword in text_lower: return category
\* the first category with a keyword contained in text_lower, else default
classify(table, text_lower, default) ==
    LET hits == {c \in 1..Len(table) :
                    \E k \in 1..Len(table[c][2]) : contains(text_lower, table[c][2][k])}
    IN  IF hits = {} THEN default ELSE table[SetMin(hits)][1]

\* (\w+ \d{1,2},? \d{4})
year_after(s, p) == IF Ch(s, p) = " " /\ digits_at(s, p + 1, 4) THEN p + 4 ELSE 0

comma_year_after(s, p) ==
    IF Ch(s, p) = "," /\ year_after(s, p + 1) # 0 THEN year_after(s, p + 1)
    ELSE year_after(s, p)

match_month_day_year(s, k) ==
    IF ~IsWord(Ch(s, k)) THEN 0
    ELSE LET e == run_end(s, k, WordSet)
         IN  IF Ch(s, e + 1) # " " THEN 0
             ELSE IF digits_at(s, e + 2, 2) /\ comma_year_after(s, e + 4) # 0
                  THEN comma_year_after(s, e + 4)
             ELSE IF digits_at(s, e + 2, 1) THEN comma_year_after(s, e + 3)
             ELSE 0

\* (\d{1,2}/\d{1,2}/\d{4})
slash_year_after(s, p) == IF Ch(s, p) = "/" /\ digits_at(s, p + 1, 4) THEN p + 4 ELSE 0

slash_day_year_after(s, p) ==
    IF Ch(s, p) # "/" THEN 0
    ELSE IF digits_at(s, p + 1, 2) /\ slash_year_after(s, p + 3) # 0
         THEN slash_year_after(s, p + 3)
    ELSE IF digits_at(s, p + 1, 1) THEN slash_year_after(s, p + 2)
    ELSE 0

match_slash_date(s, k) ==
    IF digits_at(s, k, 2) /\ slash_day_year_after(s, k + 2) # 0
    THEN slash_day_year_after(s, k + 2)
    ELSE IF digits_at(s, k, 1) THEN slash_day_year_after(s, k + 1)
    ELSE 0

\* (\d{4}-\d{2}-\d{2})
match_iso_date(s, k) ==
    IF /\ digits_at(s, k, 4) /\ Ch(s, k + 4) = "-"
       /\ digits_at(s, k + 5, 2) /\ Ch(s, k + 7) = "-"
       /\ digits_at(s, k + 8, 2)
    THEN k + 9 ELSE 0

TransactionParser_extract_date(s) ==
    first_found(match_text(s, search(s, match_month_day_year)),
        first_found(match_text(s, search(s, match_slash_date)),
                    match_text(s, search(s, match_iso_date))))

\* \$[\d,]+\.?\d*
match_amount(s, k) ==
    IF Ch(s, k) # "$" \/ Ch(s, k + 1) \notin (DigitSet \cup {","}) THEN 0
    ELSE LET e == run_end(s, k + 1, DigitSet \cup {","})
         IN  IF Ch(s, e + 1) = "." THEN run_end(s, e + 2, DigitSet) ELSE e

extract_amount(s) == match_text(s, search(s, match_amount))

\* the group of re.search(rf'{label}\s*(.+?)(?:\||$)', s, re.IGNORECASE) for
\* a one-line s: the label, the whitespace after it, then the shortest
\* non-empty text that ends before a '|' or at the end of s
label_value_at(s, label, k) ==
    LET p0 == k + Len(label)
        p  == run_end(s, p0, SpaceSet) + 1
        q  == IF p <= Len(s) THEN p ELSE p - 1
        bars == {e \in q..(Len(s) - 1) : SubSeq(s, e + 1, e + 1) = "|"}
    IN  IF q < p0 THEN None
        ELSE SubSeq(s, q, IF bars = {} THEN Len(s) ELSE SetMin(bars))

label_group(s, label) ==
    LET s_lower == lower(s)
        hits == {k \in 1..(Len(s) - Len(label) + 1) :
                    /\ SubSeq(s_lower, k, k + Len(label) - 1) = label
                    /\ label_value_at(s, label, k) # None}
    IN  IF hits = {} THEN None ELSE label_value_at(s, label, SetMin(hits))

RECURSIVE TransactionParser_extract_value_after_label(_, _)
TransactionParser_extract_value_after_label(s, labels) ==
    IF labels = <<>> THEN None
    ELSE LET g == label_group(s, labels[1])
         IN  IF g # None THEN strip_trailing_punct(strip(g))
             ELSE TransactionParser_extract_value_after_label(s, Tail(labels))

\* an _extract_status that never finds a keyword
extract_status_default_only(s) == "Pending"

TransactionParser_extract_status(s) ==
    classify(TransactionParser_status_keywords, lower(s), "Pending")

TransactionParser_infer_category(description) ==
    IF description = "" THEN "Other"
    ELSE classify(TransactionParser_category_keywords, lower(description), "Other")

\* re.search(r'a|b|...', line, re.IGNORECASE) for literal alternatives
search_any(line, alternatives) ==
    \E a \in alternatives : contains(lower(line), a)

\* a record literal that forgets the 'Notes' key
create_transaction_record_without_notes(data, src) ==
    << <<"Source File", src>>,
       <<"Date Added", strftime(now)>>,
       <<"Transaction Date", dict_get_default(data, "transaction_date", "")>>,
       <<"Category", TransactionParser_infer_category(dict_get_default(data, "description", ""))>>,
       <<"Description", dict_get_default(data, "description", "")>>,
       <<"Amount", dict_get_default(data, "amount", "")>>,
       <<"Payment Method", dict_get_default(data, "payment_method", "")>>,
       <<"Vendor", dict_get_default(data, "vendor", "")>>,
       <<"Status", dict_get_default(data, "status", "Pending")>>,
       <<"Receipt Link", "./images/" \o src>> >>

TransactionParser_create_transaction_record(data, src) ==
    << <<"Source File", src>>,
       <<"Date Added", strftime(now)>>,
       <<"Transaction Date", dict_get_default(data, "transaction_date", "")>>,
       <<"Category", TransactionParser_infer_category(dict_get_default(data, "description", ""))>>,
       <<"Description", dict_get_default(data, "description", "")>>,
       <<"Amount", dict_get_default(data, "amount", "")>>,
       <<"Payment Method", dict_get_default(data, "payment_method", "")>>,
       <<"Vendor", dict_get_default(data, "vendor", "")>>,
       <<"Status", dict_get_default(data, "status", "Pending")>>,
       <<"Notes", dict_get_default(data, "notes", "")>>,
       <<"Receipt Link", "./images/" \o src>> >>

set_if(condition, data, key, value) ==
    IF condition /\ truthy(value) THEN dict_set(data, key, value) ELSE data

\* a date rule that lets every later date replace the date held
set_transaction_date_last_wins(data, line) ==
    set_if(TRUE, data, "transaction_date", TransactionParser_extract_date(line))

\* date_match = self._extract_date(line); set when no date is held yet
set_transaction_date(data, line) ==
    set_if(~truthy(dict_get(data, "transaction_date")), data, "transaction_date",
           TransactionParser_extract_date(line))

set_description(data, line) ==
    set_if(search_any(line, {"item:", "description:"}), data, "description",
           TransactionParser_extract_value_after_label(line, <<"item:", "description:">>))

\* a labelled amount always, a standalone amount when none is held yet
set_amount(data, line) ==
    set_if(search_any(line, {"cost:", "amount:", "price:"}) \/ ~truthy(dict_get(data, "amount")),
           data, "amount", extract_amount(line))

set_vendor(data, line) ==
    set_if(search_any(line, {"vendor:", "store:", "from:"}), data, "vendor",
           TransactionParser_extract_value_after_label(line, <<"vendor:", "store:", "from:">>))

set_status(data, line) ==
    set_if(search_any(line, {"status:"}), data, "status", TransactionParser_extract_status(line))

\* the field updates of one loop iteration of parse_transactions
transaction_fields(data, line) ==
    set_status(set_vendor(set_amount(set_description(set_transaction_date(data, line),
        line), line), line), line)

\* the completion test of parse_transactions at (1-based) line k
transaction_complete(ls, k, data) ==
    \/ (k < Len(ls) /\ strip(ls[k + 1]) = "")
    \/ k = Len(ls)
    \/ (k < Len(ls) /\ search_any(ls[k + 1], {"item:", "description:"})
                    /\ truthy(dict_get(data, "description")))

\* an emission test that accepts a partial record holding any field
has_any_field(data) == data # EmptyDict

has_description_or_amount(data) ==
    truthy(dict_get(data, "description")) \/ truthy(dict_get(data, "amount"))

\* the end of one loop iteration, with the partial record data of this line
transaction_step(data) ==
    IF transaction_complete(lines, i, data) /\ has_description_or_amount(data)
    THEN /\ out' = Append(out, TransactionParser_create_transaction_record(data, source_file))
         /\ cur' = EmptyDict
    ELSE /\ out' = out
         /\ cur' = data

Transaction_parse_line ==
    /\ op = "parse_transactions"
    /\ pc = "loop"
    /\ i <= Len(lines)
    /\ transaction_step(transaction_fields(cur, lines[i]))
    /\ i' = i + 1
    /\ UNCHANGED <<op, text, source_file, moving_day_date, now, lines, result, pc, run, first>>
    /\ UNCHANGED sheet_vars

Transaction_return ==
    /\ op = "parse_transactions"
    /\ pc = "loop"
    /\ i > Len(lines)
    /\ LET transactions ==
            IF has_description_or_amount(cur)
            THEN Append(out, TransactionParser_create_transaction_record(cur, source_file))
            ELSE out
       IN  /\ out' = transactions
           /\ result' = IF transactions = <<>>
                        THEN EmptyDataFrame(TRANSACTION_COLUMNS)
                        ELSE DataFrame(transactions)
    /\ pc' = "done"
    /\ UNCHANGED <<op, text, source_file, moving_day_date, now, lines, i, cur, run, first>>
    /\ UNCHANGED sheet_vars

\* ------------------------------------------------------------------------
\* TaskParser
\* ------------------------------------------------------------------------
TASK_COLUMNS ==
    <<"Source File", "Date Added", "Room", "Task Description",
      "Priority", "Status", "Assigned To", "Start Date", "Due Date",
      "Completion Date", "Estimated Cost", "Actual Cost", "Notes">>

TaskParser_room_keywords ==
    << <<"Kitchen", <<"kitchen", "cabinets", "countertop", "sink", "stove", "oven", "dishwasher">> >>,
       <<"Dining Room", <<"dining", "dining room">> >>,
       <<"Florida Room", <<"florida", "florida room", "sunroom">> >>,
       <<"Living Room", <<"living", "living room">> >>,
       <<"Laundry Room", <<"laundry", "washer", "dryer">> >>,
       <<"Master Bedroom", <<"master", "master bedroom">> >>,
       <<"Mom's Bedroom", <<"mom's", "mom bedroom">> >>,
       <<"Erik's Bedroom", <<"erik's", "erik bedroom">> >>,
       <<"Bathroom", <<"bathroom", "toilet", "shower", "bathtub", "vanity">> >>,
       <<"Garage", <<"garage", "driveway">> >>,
       <<"Closet", <<"closet">> >>,
       <<"Pantry", <<"pantry">> >> >>

TaskParser_priority_keywords ==
    << <<"High", <<"urgent", "asap", "critical", "important", "high priority", "must", "required">> >>,
       <<"Low", <<"optional", "later", "eventually", "low priority", "nice to have">> >> >>

\* timeline phrase -> days offset, in declaration order
TaskParser_timeline_mappings ==
    << <<"two months before", 60>>,
       <<"one month before", 30>>,
       <<"three weeks before", 21>>,
       <<"two weeks before", 14>>,
       <<"one week before", 7>>,
       <<"last few days", 3>>,
       <<"few days before", 3>>,
       <<"moving day", 0>>,
       <<"after moving", -7>>,
       <<"few days after", -7>> >>

\* key in table
table_has(table, key) == \E k \in 1..Len(table) : table[k][1] = key

\* table[key]
table_get(table, key) ==
    table[SetMin({k \in 1..Len(table) : table[k][1] = key})][2]

TaskParser_extract_timeline(line) ==
    LET line_lower == lower(line)
        hits == {k \in 1..Len(TaskParser_timeline_mappings) :
                    /\ contains(line_lower, TaskParser_timeline_mappings[k][1])
                    /\ (\/ contains(line_lower, "before")
                        \/ contains(line_lower, "after")
                        \/ contains(line_lower, "day"))}
    IN  IF hits = {} THEN None ELSE TaskParser_timeline_mappings[SetMin(hits)][1]

TaskParser_calculate_due_date(timeline) ==
    IF ~truthy(timeline) THEN None
    ELSE IF table_has(TaskParser_timeline_mappings, lower(timeline))
         THEN strftime(add_days(now, table_get(TaskParser_timeline_mappings, lower(timeline))))
    ELSE None

\* s without the prefix s[1..e]
drop_prefix(s, e) == SubSeq(s, e + 1, Len(s))

\* the position after an optional character of class S at p
skip_optional(s, p, S) == IF Ch(s, p) \in S THEN p + 1 ELSE p

\* re.sub(r'^[\[\(]?\s*[xX..]?\s*[\]\)]?\s*', '', line)
strip_checkbox_marker(line) ==
    LET p1 == skip_optional(line, 1, {"[", "("})
        p2 == run_end(line, p1, SpaceSet) + 1
        p3 == skip_optional(line, p2, {"x", "X"})
        p4 == run_end(line, p3, SpaceSet) + 1
        p5 == skip_optional(line, p4, {"]", ")"})
        p6 == run_end(line, p5, SpaceSet) + 1
    IN  drop_prefix(line, p6 - 1)

\* re.sub(r'^[..\-\*]\s*', '', s)
strip_bullet(s) ==
    IF Ch(s, 1) \in {"-", "*"} THEN drop_prefix(s, run_end(s, 2, SpaceSet)) ELSE s

\* re.sub(r'^[DQO1Il]\s+', '', s)
strip_ocr_artifact(s) ==
    IF Ch(s, 1) \in {"D", "Q", "O", "1", "I", "l"} /\ IsSpace(Ch(s, 2)) /\ Ch(s, 2) # ""
    THEN drop_prefix(s, run_end(s, 2, SpaceSet)) ELSE s

TaskParser_is_section_header(t) ==
    \E indicator \in {"before your move", "after moving", "moving day", "to-do list", "checklist"} :
        contains(lower(t), indicator)

TaskParser_extract_task_text(line) ==
    LET cleaned == strip(strip_ocr_artifact(strip_bullet(strip_checkbox_marker(line))))
    IN  IF Len(cleaned) > 5 /\ ~TaskParser_is_section_header(cleaned) THEN cleaned ELSE None

TaskParser_infer_room(task_description) ==
    IF task_description = "" THEN "General"
    ELSE classify(TaskParser_room_keywords, lower(task_description), "General")

TaskParser_infer_priority(task_description) ==
    IF task_description = "" THEN "Medium"
    ELSE classify(TaskParser_priority_keywords, lower(task_description), "Medium")

or_empty(v) == IF truthy(v) THEN v ELSE ""

\* a _create_task_record that drops the timeline context
create_task_record_without_timeline(task_text, src, timeline, due_date) ==
    << <<"Source File", src>>,
       <<"Date Added", strftime(now)>>,
       <<"Room", TaskParser_infer_room(task_text)>>,
       <<"Task Description", task_text>>,
       <<"Priority", TaskParser_infer_priority(task_text)>>,
       <<"Status", "Not Started">>,
       <<"Assigned To", "">>,
       <<"Start Date", "">>,
       <<"Due Date", "">>,
       <<"Completion Date", "">>,
       <<"Estimated Cost", "">>,
       <<"Actual Cost", "">>,
       <<"Notes", "">> >>

TaskParser_create_task_record(task_text, src, timeline, due_date) ==
    << <<"Source File", src>>,
       <<"Date Added", strftime(now)>>,
       <<"Room", TaskParser_infer_room(task_text)>>,
       <<"Task Description", task_text>>,
       <<"Priority", TaskParser_infer_priority(task_text)>>,
       <<"Status", "Not Started">>,
       <<"Assigned To", "">>,
       <<"Start Date", "">>,
       <<"Due Date", or_empty(due_date)>>,
       <<"Completion Date", "">>,
       <<"Estimated Cost", "">>,
       <<"Actual Cost", "">>,
       <<"Notes", IF truthy(timeline) THEN "Timeline: " \o timeline ELSE "">> >>

Task_parse_line ==
    /\ op = "parse_tasks"
    /\ pc = "loop"
    /\ i <= Len(lines)
    /\ LET line == lines[i]
           timeline == TaskParser_extract_timeline(line)
           task_text == TaskParser_extract_task_text(line)
       IN  IF truthy(timeline)
           THEN /\ cur' = [current_timeline |-> timeline,
                           current_due_date |-> TaskParser_calculate_due_date(timeline)]
                /\ out' = out
           ELSE /\ cur' = cur
                /\ out' = IF truthy(task_text)
                          THEN Append(out, TaskParser_create_task_record(
                                   task_text, source_file, cur.current_timeline, cur.current_due_date))
                          ELSE out
    /\ i' = i + 1
    /\ UNCHANGED <<op, text, source_file, moving_day_date, now, lines, result, pc, run, first>>
    /\ UNCHANGED sheet_vars

Task_return ==
    /\ op = "parse_tasks"
    /\ pc = "loop"
    /\ i > Len(lines)
    /\ result' = IF out = <<>> THEN EmptyDataFrame(TASK_COLUMNS) ELSE DataFrame(out)
    /\ pc' = "done"
    /\ UNCHANGED <<op, text, source_file, moving_day_date, now, lines, i, cur, out, run, first>>
    /\ UNCHANGED sheet_vars

\* ------------------------------------------------------------------------
\* LayoutParser
\* ------------------------------------------------------------------------
LAYOUT_COLUMNS ==
    <<"Source File", "Date Added", "Room/Area Name", "Description",
      "Features", "Measurements", "Adjacent To", "Current Status", "Notes">>

LayoutParser_room_keywords ==
    << <<"Kitchen", <<"kitchen">> >>,
       <<"Dining Room", <<"dining", "dining room">> >>,
       <<"Florida Room", <<"florida", "florida room", "sunroom">> >>,
       <<"Living Room", <<"living", "living room", "family room">> >>,
       <<"Laundry Room", <<"laundry", "laundry room">> >>,
       <<"Master Bedroom", <<"master", "master bedroom">> >>,
       <<"Mom's Bedroom", <<"mom's", "mom bedroom", "mom's bedroom">> >>,
       <<"Erik's Bedroom", <<"erik's", "erik bedroom", "erik's bedroom">> >>,
       <<"Guest Bathroom", <<"bathroom", "guest bathroom", "bath">> >>,
       <<"Garage", <<"garage">> >>,
       <<"Linen Closet", <<"linen", "linen closet">> >>,
       <<"Backyard Area", <<"backyard", "back yard", "rear yard">> >>,
       <<"Frontyard Area", <<"frontyard", "front yard">> >> >>

\* re.search(rf'\b{keyword}\b', s) for a keyword that starts and ends with a
\* word character
contains_word(s, keyword) ==
    \E k \in 1..(Len(s) - Len(keyword) + 1) :
        /\ SubSeq(s, k, k + Len(keyword) - 1) = keyword
        /\ ~IsWord(Ch(s, k - 1))
        /\ ~IsWord(Ch(s, k + Len(keyword)))

LayoutParser_match_room_name(t) ==
    classify(LayoutParser_room_keywords, lower(t), None)

\* re.search(r'^room\s*:', line_lower)
starts_with_room_label(line_lower) ==
    /\ startswith(line_lower, "room")
    /\ Ch(line_lower, run_end(line_lower, 5, SpaceSet) + 1) = ":"

\* s.split(sep, 1)[1] for an s that contains sep
after_first(s, sep) == SubSeq(s, find(s, sep, 1) + Len(sep), Len(s))

LayoutParser_extract_room(line) ==
    LET line_lower == lower(line)
        hits == {c \in 1..Len(LayoutParser_room_keywords) :
                    \E k \in 1..Len(LayoutParser_room_keywords[c][2]) :
                        /\ contains_word(line_lower, LayoutParser_room_keywords[c][2][k])
                        /\ word_count(line) <= 4}
    IN  IF starts_with_room_label(line_lower)
        THEN LayoutParser_match_room_name(strip(after_first(line, ":")))
        ELSE IF hits = {} THEN None
        ELSE LayoutParser_room_keywords[SetMin(hits)][1]

\* the position after \s* from p
skip_spaces(s, p) == run_end(s, p, SpaceSet) + 1

\* the position after \d+ from p, 0 when no digit is at p
skip_digits(s, p) == IF IsDigit(Ch(s, p)) THEN run_end(s, p, DigitSet) + 1 ELSE 0

\* the position after the literal t at p, 0 when it is not there
skip_literal(s, p, t) ==
    IF p >= 1 /\ p + Len(t) - 1 <= Len(s) /\ SubSeq(s, p, p + Len(t) - 1) = t
    THEN p + Len(t) ELSE 0

\* \d+ unit \s*x\s* \d+ unit, on a lower-cased s, where unit(s, p) gives the
\* position after the unit at p (0 when it does not match)
match_dimensions(s, k, unit(_, _)) ==
    LET a1 == skip_digits(s, k)
        a2 == IF a1 = 0 THEN 0 ELSE unit(s, a1)
        a3 == IF a2 = 0 THEN 0 ELSE skip_literal(s, skip_spaces(s, a2), "x")
        a4 == IF a3 = 0 THEN 0 ELSE skip_digits(s, skip_spaces(s, a3))
        a5 == IF a4 = 0 THEN 0 ELSE unit(s, a4)
    IN  IF a5 = 0 THEN 0 ELSE a5 - 1

\* [\'\"]?
unit_quote(s, p) == skip_optional(s, p, {"'", "\""})

\* \s*ft\.?
unit_ft(s, p) ==
    LET q == skip_literal(s, skip_spaces(s, p), "ft")
    IN  IF q = 0 THEN 0 ELSE skip_optional(s, q, {"."})

\* \s*feet?
unit_feet(s, p) ==
    LET q == skip_literal(s, skip_spaces(s, p), "fee")
    IN  IF q = 0 THEN 0 ELSE skip_optional(s, q, {"t"})

match_dims_quote(s, k) == match_dimensions(s, k, unit_quote)
match_dims_ft(s, k)    == match_dimensions(s, k, unit_ft)
match_dims_feet(s, k)  == match_dimensions(s, k, unit_feet)

\* the greedy group of 'head\s*(.+)' anchored at the end of head, p0 - 1:
\* the rest of the line after the whitespace (the last blank when only
\* whitespace follows), None when nothing follows
rest_from(s, p0) ==
    LET p == skip_spaces(s, p0)
    IN  IF p <= Len(s) THEN SubSeq(s, p, Len(s))
        ELSE IF p0 <= Len(s) THEN SubSeq(s, Len(s), Len(s))
        ELSE None

\* the group of re.search(rf'{label}s?:\s*(.+)', s, re.IGNORECASE) on one line
labelled_rest(s, label) ==
    LET s_lower == lower(s)
        after(k) == IF skip_literal(s_lower, k, label \o "s:") # 0
                    THEN skip_literal(s_lower, k, label \o "s:")
                    ELSE skip_literal(s_lower, k, label \o ":")
        hits == {k \in 1..Len(s) : after(k) # 0 /\ rest_from(s, after(k)) # None}
    IN  IF hits = {} THEN None ELSE rest_from(s, after(SetMin(hits)))

\* the group of re.search(rf'{label}\s*(.+)', s, re.IGNORECASE) on one line
literal_rest(s, label) ==
    LET s_lower == lower(s)
        hits == {k \in 1..Len(s) :
                    /\ skip_literal(s_lower, k, label) # 0
                    /\ rest_from(s, skip_literal(s_lower, k, label)) # None}
    IN  IF hits = {} THEN None ELSE rest_from(s, skip_literal(s_lower, SetMin(hits), label))

dimension_text(line, m) == IF m[1] # 0 THEN strip(SubSeq(line, m[1], m[2])) ELSE None

LayoutParser_extract_measurements(line) ==
    first_found(dimension_text(line, search(lower(line), match_dims_quote)),
        first_found(dimension_text(line, search(lower(line), match_dims_ft)),
            first_found(dimension_text(line, search(lower(line), match_dims_feet)),
                first_found(strip_found(labelled_rest(line, "dimension")),
                            strip_found(literal_rest(line, "size:"))))))

RECURSIVE LayoutParser_extract_value_after_label(_, _)
LayoutParser_extract_value_after_label(s, labels) ==
    IF labels = <<>> THEN None
    ELSE LET g == labelled_rest(s, labels[1])
         IN  IF g # None THEN strip_trailing_punct(strip(g))
             ELSE LayoutParser_extract_value_after_label(s, Tail(labels))

LayoutParser_create_layout_record(c, src) ==
    << <<"Source File", src>>,
       <<"Date Added", strftime(now)>>,
       <<"Room/Area Name", c.current_room>>,
       <<"Description", join(" ", c.current_description)>>,
       <<"Features", join("; ", c.current_features)>>,
       <<"Measurements", or_empty(c.current_measurements)>>,
       <<"Adjacent To", join(", ", c.current_adjacent)>>,
       <<"Current Status", or_empty(c.current_status)>>,
       <<"Notes", join(" ", c.current_notes)>> >>

\* the truthy measurements of the lines of text.split('\n')
RECURSIVE measurements_of(_)
measurements_of(ls) ==
    IF ls = <<>> THEN <<>>
    ELSE LET m == LayoutParser_extract_measurements(ls[1])
         IN  (IF truthy(m) THEN <<m>> ELSE <<>>) \o measurements_of(Tail(ls))

\* s[:n]
prefix(s, n) == SubSeq(s, 1, IF Len(s) < n THEN Len(s) ELSE n)

\* a general record that cuts the description at 100 characters
create_general_record_short_description(t, src) ==
    << <<"Source File", src>>,
       <<"Date Added", strftime(now)>>,
       <<"Room/Area Name", "">>,
       <<"Description", IF t # "" THEN prefix(t, 100) ELSE "">>,
       <<"Features", "">>,
       <<"Measurements", join(", ", measurements_of(split_lines(t)))>>,
       <<"Adjacent To", "">>,
       <<"Current Status", "">>,
       <<"Notes", IF Len(t) > 200 THEN prefix(t, 500) ELSE "">> >>

\* a fallback record filed under a room name
general_record_with_room(t, src) ==
    << <<"Source File", src>>,
       <<"Date Added", strftime(now)>>,
       <<"Room/Area Name", "General">>,
       <<"Description", t>>,
       <<"Features", "">>,
       <<"Measurements", "">>,
       <<"Adjacent To", "">>,
       <<"Current Status", "">>,
       <<"Notes", "">> >>

LayoutParser_create_general_record(t, src) ==
    << <<"Source File", src>>,
       <<"Date Added", strftime(now)>>,
       <<"Room/Area Name", "">>,
       <<"Description", IF t # "" THEN prefix(t, 200) ELSE "">>,
       <<"Features", "">>,
       <<"Measurements", join(", ", measurements_of(split_lines(t)))>>,
       <<"Adjacent To", "">>,
       <<"Current Status", "">>,
       <<"Notes", IF Len(t) > 200 THEN prefix(t, 500) ELSE "">> >>

NoRoom ==
    [current_room |-> None, current_description |-> <<>>, current_features |-> <<>>,
     current_measurements |-> None, current_adjacent |-> <<>>,
     current_status |-> None, current_notes |-> <<>>]

\* re.search(r'^(feature|update|dimension|measurement|adjacent|status|note)s?:', line, re.IGNORECASE)
is_label_line(line) ==
    \E l \in {"feature", "update", "dimension", "measurement", "adjacent", "status", "note"} :
        \/ startswith(lower(line), l \o ":")
        \/ startswith(lower(line), l \o "s:")

\* the updates of one iteration of parse_layout on a line that opens no room
\* current_measurements with measurement added
add_measurement(c, measurement) ==
    IF truthy(measurement) /\ truthy(c.current_room)
    THEN [c EXCEPT !.current_measurements =
              IF ~truthy(c.current_measurements) THEN measurement
              ELSE c.current_measurements \o ", " \o measurement]
    ELSE c

add_feature(c, found, feature_text) ==
    IF found /\ truthy(c.current_room) /\ truthy(feature_text)
    THEN [c EXCEPT !.current_features = Append(@, feature_text)] ELSE c

add_adjacent(c, found, adjacent_text) ==
    IF found /\ truthy(c.current_room) /\ truthy(adjacent_text)
    THEN [c EXCEPT !.current_adjacent = Append(@, adjacent_text)] ELSE c

set_current_status(c, found, status_text) ==
    IF found /\ truthy(c.current_room) /\ truthy(status_text)
    THEN [c EXCEPT !.current_status = status_text] ELSE c

add_note(c, found, note_text) ==
    IF found /\ truthy(c.current_room) /\ truthy(note_text)
    THEN [c EXCEPT !.current_notes = Append(@, note_text)] ELSE c

add_description(c, line) ==
    IF truthy(c.current_room) /\ Len(line) > 5 /\ ~is_label_line(line)
    THEN [c EXCEPT !.current_description = Append(@, line)] ELSE c

layout_measurement(c, line) == add_measurement(c, LayoutParser_extract_measurements(line))

layout_features(c, line) ==
    add_feature(c,
        search_any(line, {"feature", "update", "change", "layout", "include:", "includes:"}),
        LayoutParser_extract_value_after_label(
            line, <<"feature", "update", "change", "layout", "includes">>))

layout_adjacent(c, line) ==
    add_adjacent(c, search_any(line, {"adjacent", "near", "next to", "beside:"}),
        LayoutParser_extract_value_after_label(line, <<"adjacent", "near", "next to", "beside">>))

layout_status(c, line) ==
    set_current_status(c, search_any(line, {"status", "current", "condition:"}),
        LayoutParser_extract_value_after_label(line, <<"status", "current", "condition">>))

layout_notes(c, line) ==
    add_note(c, search_any(line, {"note", "notes:", "note:", "comment:"}),
        LayoutParser_extract_value_after_label(line, <<"note", "notes", "comment">>))

\* the field updates of one loop iteration of parse_layout on a line that
\* opens no room
layout_fields(c, line) ==
    add_description(
        layout_notes(layout_status(layout_adjacent(layout_features(layout_measurement(c, line),
            line), line), line), line), line)

\* a new room that keeps the fields of the block before it
block_kept(room) == [cur EXCEPT !.current_room = room]

\* "Start new room": every field of the partial record is reset
new_block(room) == [NoRoom EXCEPT !.current_room = room]

\* one loop iteration of parse_layout on line, where room = _extract_room(line)
layout_step(line, room) ==
    IF truthy(room)
    THEN /\ out' = IF truthy(cur.current_room)
                   THEN Append(out, LayoutParser_create_layout_record(cur, source_file))
                   ELSE out
         /\ cur' = new_block(room)
    ELSE /\ out' = out
         /\ cur' = layout_fields(cur, line)

Layout_parse_line ==
    /\ op = "parse_layout"
    /\ pc = "loop"
    /\ i <= Len(lines)
    /\ layout_step(lines[i], LayoutParser_extract_room(lines[i]))
    /\ i' = i + 1
    /\ UNCHANGED <<op, text, source_file, moving_day_date, now, lines, result, pc, run, first>>
    /\ UNCHANGED sheet_vars

Layout_return ==
    /\ op = "parse_layout"
    /\ pc = "loop"
    /\ i > Len(lines)
    /\ LET flushed == IF truthy(cur.current_room)
                      THEN Append(out, LayoutParser_create_layout_record(cur, source_file))
                      ELSE out
           layouts == IF flushed = <<>>
                      THEN <<LayoutParser_create_general_record(text, source_file)>>
                      ELSE flushed
       IN  /\ out' = layouts
           /\ result' = DataFrame(layouts)
    /\ pc' = "done"
    /\ UNCHANGED <<op, text, source_file, moving_day_date, now, lines, i, cur, run, first>>
    /\ UNCHANGED sheet_vars

\* ------------------------------------------------------------------------
\* MovingGuideParser
\* ------------------------------------------------------------------------
MovingGuideParser_VALID_PRIORITIES ==
    << <<"high", "High">>, <<"medium", "Medium">>, <<"low", "Low">> >>

MovingGuideParser_timeline_mappings ==
    << <<"4 weeks before", 28>>,
       <<"3-4 weeks out", 25>>,
       <<"3 weeks before", 21>>,
       <<"2-4 weeks", 21>>,
       <<"2 weeks before", 14>>,
       <<"2 weeks out", 14>>,
       <<"1-2 weeks out", 10>>,
       <<"1 week before", 7>>,
       <<"week of move", 3>>,
       <<"moving day", 0>>,
       <<"day after move", -1>>,
       <<"week 1 after move", -7>>,
       <<"weeks 2-4 after move", -14>>,
       <<"arrival day", 0>>,
       <<"first 2 hours", 0>>,
       <<"day 1-2", -1>>,
       <<"week 1-2", -7>> >>

MovingGuideParser_room_keywords ==
    << <<"Kitchen", <<"kitchen", "dishes", "appliances", "coffee maker", "canned goods">> >>,
       <<"Living Room", <<"living room", "living areas", "furniture">> >>,
       <<"Master Bedroom", <<"bedroom", "bed frames", "mattress">> >>,
       <<"Bathroom", <<"bathroom", "toiletries">> >>,
       <<"Garage", <<"garage", "truck", "dolly", "hand truck", "tools">> >>,
       <<"General", <<"supplies", "boxes", "packing", "moving", "utilities">> >> >>

MovingGuideParser_priority_keywords ==
    << <<"high", <<"essential", "critical", "first", "immediate", "safety",
                   "urgent", "must", "priority 1", "important">> >>,
       <<"medium", <<"priority 2", "day 1", "verify", "confirm", "update">> >>,
       <<"low", <<"priority 3", "week 1-2", "explore", "final">> >> >>

\* self.moving_day as set by __init__
\* a constructor that ignores its moving_day_date argument
moving_day_ignoring_argument == add_days(now, 14)

MovingGuideParser_moving_day ==
    IF truthy(moving_day_date) THEN strptime(moving_day_date) ELSE add_days(now, 14)

\* the position after \s+ from p, 0 when no whitespace is at p
skip_spaces1(s, p) == IF IsSpace(Ch(s, p)) /\ Ch(s, p) # "" THEN skip_spaces(s, p) ELSE 0

\* the position after the literals and \s+ of parts, in turn, from p, where
\* the part " " stands for \s+ (0 when one of them does not match)
RECURSIVE skip_parts(_, _, _)
skip_parts(s, p, parts) ==
    IF p = 0 \/ parts = <<>> THEN p
    ELSE skip_parts(s,
                    IF parts[1] = " " THEN skip_spaces1(s, p) ELSE skip_literal(s, p, parts[1]),
                    Tail(parts))

\* str(n) for n >= 0
RECURSIVE str_of_int(_)
str_of_int(n) == IF n < 10 THEN digit(n) ELSE str_of_int(n \div 10) \o digit(n % 10)

\* weeks?\s+(\d+)-?(\d*)\s+ on a lower-cased s at k: <<first position of
\* group 1, position after the trailing \s+>>, <<0, 0>> when no match
weeks_number_at(s, k) ==
    LET a1 == skip_literal(s, k, "week")
        a2 == IF a1 = 0 THEN 0 ELSE skip_spaces1(s, skip_optional(s, a1, {"s"}))
        a3 == IF a2 = 0 THEN 0 ELSE skip_digits(s, a2)
        a4 == IF a3 = 0 THEN 0
              ELSE skip_spaces1(s, run_end(s, skip_optional(s, a3, {"-"}), DigitSet) + 1)
    IN  IF a4 = 0 THEN <<0, 0>> ELSE <<a2, a4>>

\* weeks?\s+(\d+)-?(\d*)\s+before
\* the end of 'before' at p, 0 when it is not there
end_of_before(s, p) ==
    IF p = 0 \/ skip_literal(s, p, "before") = 0 THEN 0 ELSE skip_literal(s, p, "before") - 1

match_weeks_before(s, k) == end_of_before(s, weeks_number_at(s, k)[2])

\* group 1 of the leftmost match of match_weeks_before
weeks_before_number(s) ==
    LET k == search(s, match_weeks_before)[1]
        d == weeks_number_at(s, k)[1]
    IN  SubSeq(s, d, run_end(s, d, DigitSet))

\* (day|week\s+\d+)\s+after\s+move
match_after_move(s, k) ==
    LET day == skip_parts(s, k, <<"day", " ", "after", " ", "move">>)
        w1  == skip_parts(s, k, <<"week", " ">>)
        w2  == IF w1 = 0 THEN 0 ELSE skip_digits(s, w1)
        week == skip_parts(s, w2, <<" ", "after", " ", "move">>)
    IN  IF day # 0 THEN day - 1 ELSE IF week # 0 THEN week - 1 ELSE 0

\* line.strip('<emoji> ').strip(':').strip(), on ASCII text
section_title(line) == strip(strip_chars(strip_chars(line, {" "}), {":"}))

\* a pattern 1 that gives every 'weeks N before' header the high priority
weeks_before_info_always_high(week_num) ==
    [timeline |-> str_of_int(week_num) \o " weeks before", priority |-> "high"]

\* pattern 1: the timeline and priority of 'weeks N before'
weeks_before_info(week_num) ==
    [timeline |-> str_of_int(week_num) \o " weeks before",
     priority |-> IF week_num >= 2 THEN "medium" ELSE "high"]

\* pattern 4: the timeline and priority of the matched '... after move'
after_move_info(timeline) ==
    [timeline |-> timeline,
     priority |-> IF contains(timeline, "day") THEN "high" ELSE "medium"]

\* patterns 4 and 5, and no pattern
after_move_or_arrival(line_lower, after) ==
    IF after[1] # 0 THEN after_move_info(SubSeq(line_lower, after[1], after[2]))
    ELSE IF contains(line_lower, "arrival")
    THEN [timeline |-> "arrival day", priority |-> "high"]
    ELSE [timeline |-> None, priority |-> "medium"]

\* timeline and priority of a lower-cased line
section_timeline(line_lower) ==
    IF search(line_lower, match_weeks_before)[1] # 0
    THEN weeks_before_info(int_of(weeks_before_number(line_lower)))
    ELSE IF contains(line_lower, "week of move")
    THEN [timeline |-> "week of move", priority |-> "high"]
    ELSE IF contains(line_lower, "moving day") /\ ~contains(line_lower, "before")
    THEN [timeline |-> "moving day", priority |-> "high"]
    ELSE after_move_or_arrival(line_lower, search(line_lower, match_after_move))

section_info_of(line, line_lower, info) ==
    IF \/ truthy(info.timeline)
       \/ \E indicator \in {"checklist", "phase", "guide", "reference"} :
             contains(line_lower, indicator)
    THEN [found |-> TRUE, section |-> section_title(line),
          timeline |-> info.timeline, priority |-> info.priority]
    ELSE [found |-> FALSE, section |-> None, timeline |-> None, priority |-> "medium"]

\* the dict returned for a header line (found), None otherwise (~found)
MovingGuideParser_extract_section_info(line) ==
    section_info_of(line, lower(line), section_timeline(lower(line)))

\* group 1 of re.match(r'^\[\s*[xX..]?\s*\]\s+(.+)$', line), None when no match
checkbox_group(line) ==
    LET a1 == skip_literal(line, 1, "[")
        a2 == IF a1 = 0 THEN 0
              ELSE skip_spaces(line, skip_optional(line, skip_spaces(line, a1), {"x", "X"}))
        a3 == IF a2 = 0 THEN 0 ELSE skip_literal(line, a2, "]")
        a4 == IF a3 = 0 THEN 0 ELSE skip_spaces1(line, a3)
    IN  IF a4 = 0 \/ a4 > Len(line) THEN None ELSE SubSeq(line, a4, Len(line))

\* the position after '(w1|w2|...):?\s*_+' at p, for the words ws
placeholder_after(s, p, ws) ==
    LET ends == {run_end(s, skip_spaces(s, skip_optional(s, skip_literal(s, p, w), {":"})), {"_"}) + 1 :
                    w \in {w \in ws :
                            /\ skip_literal(s, p, w) # 0
                            /\ Ch(s, skip_spaces(s, skip_optional(s, skip_literal(s, p, w), {":"}))) = "_"}}
    IN  IF ends = {} THEN 0 ELSE SetMax(ends)

\* \s+-\s+(w1|...):?\s*_+
match_placeholder(s, k, ws) ==
    LET a == skip_parts(s, k, <<" ", "-", " ">>)
    IN  IF a = 0 \/ placeholder_after(s, a, ws) = 0 THEN 0
        ELSE placeholder_after(s, a, ws) - 1

\* re.sub(r'\s+-\s+(w1|...):?\s*_+', '', s): every match removed
RECURSIVE remove_placeholders(_, _)
remove_placeholders(s, ws) ==
    LET starts == {k \in 1..Len(s) : match_placeholder(s, k, ws) # 0}
    IN  IF starts = {} THEN s
        ELSE SubSeq(s, 1, SetMin(starts) - 1)
             \o remove_placeholders(
                    SubSeq(s, match_placeholder(s, SetMin(starts), ws) + 1, Len(s)), ws)

\* an _extract_checklist_item that keeps the placeholder suffix
extract_checklist_item_keeping_placeholder(line) ==
    LET g == checkbox_group(line)
    IN  IF g = None THEN None
        ELSE IF Len(strip(g)) > 5 THEN strip(g) ELSE None

MovingGuideParser_extract_checklist_item(line) ==
    LET g == checkbox_group(line)
        task_text == remove_placeholders(
                        remove_placeholders(strip(g),
                            {"Qty", "Date", "Dates", "Platform", "Drop-off scheduled", "Rolls"}),
                        {"Reserved/Purchased"})
    IN  IF g # None /\ Len(task_text) > 5 THEN task_text ELSE None

\* the position after '^Action\s+Step\s+\d+:' in line, 0 when no match
action_step_label(line) ==
    LET a == skip_parts(lower(line), 1, <<"action", " ", "step", " ">>)
        b == IF a = 0 THEN 0 ELSE skip_digits(line, a)
    IN  IF b = 0 THEN 0 ELSE skip_literal(line, b, ":")

\* group 1 of re.search(r'^Action\s+Step\s+\d+:\s*(.+)$', line, re.IGNORECASE)
action_step_group(line) ==
    IF action_step_label(line) = 0 THEN None ELSE rest_from(line, action_step_label(line))

MovingGuideParser_extract_action_step(line) ==
    IF action_step_group(line) # None THEN strip(action_step_group(line)) ELSE None

\* a _calculate_due_date that adds the offset to the moving day
calculate_due_date_adding_offset(timeline) ==
    IF ~truthy(timeline) THEN None
    ELSE LET timeline_lower == lower(timeline)
             hits == {k \in 1..Len(MovingGuideParser_timeline_mappings) :
                         contains(timeline_lower, MovingGuideParser_timeline_mappings[k][1])}
         IN  IF hits = {} THEN None
             ELSE strftime(add_days(MovingGuideParser_moving_day,
                      MovingGuideParser_timeline_mappings[SetMin(hits)][2]))

MovingGuideParser_calculate_due_date(timeline) ==
    IF ~truthy(timeline) THEN None
    ELSE LET timeline_lower == lower(timeline)
             hits == {k \in 1..Len(MovingGuideParser_timeline_mappings) :
                         contains(timeline_lower, MovingGuideParser_timeline_mappings[k][1])}
         IN  IF table_has(MovingGuideParser_timeline_mappings, timeline_lower)
             THEN strftime(add_days(MovingGuideParser_moving_day,
                      0 - table_get(MovingGuideParser_timeline_mappings, timeline_lower)))
             ELSE IF hits # {}
             THEN strftime(add_days(MovingGuideParser_moving_day,
                      0 - MovingGuideParser_timeline_mappings[SetMin(hits)][2]))
             ELSE None

MovingGuideParser_infer_room(task_text) ==
    classify(MovingGuideParser_room_keywords, lower(task_text), "General")

\* a _determine_priority that looks for high and low keywords only
determine_priority_without_medium_keywords(task_text, base_priority) ==
    LET hit == classify(<<MovingGuideParser_priority_keywords[1],
                          MovingGuideParser_priority_keywords[3]>>, lower(task_text), None)
    IN  IF hit # None THEN table_get(MovingGuideParser_VALID_PRIORITIES, hit)
        ELSE IF table_has(MovingGuideParser_VALID_PRIORITIES, base_priority)
        THEN table_get(MovingGuideParser_VALID_PRIORITIES, base_priority)
        ELSE "Medium"

MovingGuideParser_determine_priority(task_text, base_priority) ==
    LET hit == classify(MovingGuideParser_priority_keywords, lower(task_text), None)
    IN  IF hit # None THEN table_get(MovingGuideParser_VALID_PRIORITIES, hit)
        ELSE IF table_has(MovingGuideParser_VALID_PRIORITIES, base_priority)
        THEN table_get(MovingGuideParser_VALID_PRIORITIES, base_priority)
        ELSE "Medium"

MovingGuideParser_create_task_record(task_text, section, timeline, priority_level) ==
    << <<"Source File", "moving_guide.txt">>,
       <<"Date Added", strftime(now)>>,
       <<"Room", MovingGuideParser_infer_room(task_text)>>,
       <<"Task Description", task_text>>,
       <<"Priority", MovingGuideParser_determine_priority(task_text, priority_level)>>,
       <<"Status", "Not Started">>,
       <<"Assigned To", "">>,
       <<"Start Date", "">>,
       <<"Due Date", or_empty(MovingGuideParser_calculate_due_date(timeline))>>,
       <<"Completion Date", "">>,
       <<"Estimated Cost", "">>,
       <<"Actual Cost", "">>,
       <<"Notes", join(" | ",
            (IF truthy(section) THEN <<"Section: " \o section>> ELSE <<>>)
            \o (IF truthy(timeline) THEN <<"Timeline: " \o timeline>> ELSE <<>>))>> >>

\* one loop iteration of parse_guide on a non-blank stripped line
guide_step(section_info, checklist_task, action_step, section) ==
    IF section_info.found
    THEN /\ cur' = [current_section |-> section_info.section,
                    current_timeline |-> section_info.timeline,
                    current_priority |-> section_info.priority]
         /\ out' = out
    ELSE IF truthy(checklist_task)
    THEN /\ out' = Append(out, MovingGuideParser_create_task_record(
                       checklist_task, section, cur.current_timeline, cur.current_priority))
         /\ cur' = cur
    ELSE IF truthy(action_step)
    THEN /\ out' = Append(out, MovingGuideParser_create_task_record(
                       action_step, section, cur.current_timeline, cur.current_priority))
         /\ cur' = cur
    ELSE UNCHANGED <<cur, out>>

Guide_parse_line ==
    /\ op = "parse_guide"
    /\ pc = "loop"
    /\ i <= Len(lines)
    /\ IF strip(lines[i]) = "" THEN UNCHANGED <<cur, out>>
       ELSE guide_step(MovingGuideParser_extract_section_info(strip(lines[i])),
                       MovingGuideParser_extract_checklist_item(strip(lines[i])),
                       MovingGuideParser_extract_action_step(strip(lines[i])),
                       IF truthy(cur.current_section) THEN cur.current_section ELSE "General")
    /\ i' = i + 1
    /\ UNCHANGED <<op, text, source_file, moving_day_date, now, lines, result, pc, run, first>>
    /\ UNCHANGED sheet_vars

Guide_return ==
    /\ op = "parse_guide"
    /\ pc = "loop"
    /\ i > Len(lines)
    /\ result' = IF out = <<>> THEN EmptyDataFrame(TASK_COLUMNS) ELSE DataFrame(out)
    /\ pc' = "done"
    /\ UNCHANGED <<op, text, source_file, moving_day_date, now, lines, i, cur, out, run, first>>
    /\ UNCHANGED sheet_vars

\* a call of MovingGuideParser(moving_day_date)._calculate_due_date(text)
Guide_calculate_due_date ==
    /\ op = "_calculate_due_date"
    /\ pc = "loop"
    /\ result' = MovingGuideParser_calculate_due_date(text)
    /\ pc' = "done"
    /\ UNCHANGED <<op, text, source_file, moving_day_date, now, lines, i, cur, out, run, first>>
    /\ UNCHANGED sheet_vars

\* ------------------------------------------------------------------------
\* parse_moving_guide.py
\* ------------------------------------------------------------------------
parse_moving_guide_timeline_map ==
    << <<"3-4 weeks", 25>>,
       <<"1-2 weeks", 10>>,
       <<"week of move", 3>>,
       <<"moving day", 0>>,
       <<"day after", -1>>,
       <<"week 1 after", -7>>,
       <<"weeks 2-4 after", -14>> >>

infer_room_keywords ==
    << <<"Kitchen", <<"kitchen", "dishes", "appliances", "coffee maker", "canned goods", "kitchenware">> >>,
       <<"Living Room", <<"living room", "living areas", "furniture">> >>,
       <<"Master Bedroom", <<"bedroom", "bed", "mattress">> >>,
       <<"Bathroom", <<"bathroom", "toiletries">> >>,
       <<"Garage", <<"garage", "truck", "dolly", "hand truck", "loading", "transport">> >>,
       <<"General", <<>> >> >>

enhance_priority_keywords ==
    << <<"High", <<"essential", "critical", "first", "immediate", "safety", "urgent",
                   "must", "important", "priority 1">> >>,
       <<"Low", <<"priority 3", "explore", "final", "optional">> >> >>

\* re.sub(r'(\[ \])', r'\n\1', text)
RECURSIVE preprocess_text(_)
preprocess_text(t) ==
    LET k == find(t, "[ ]", 1)
    IN  IF k = 0 THEN t
        ELSE SubSeq(t, 1, k - 1) \o "\n[ ]" \o preprocess_text(SubSeq(t, k + 3, Len(t)))

\* the moving day of parse_moving_guide
parse_moving_guide_moving_day ==
    IF truthy(moving_day_date) THEN strptime(moving_day_date) ELSE add_days(now, 14)

\* WEEKS?\s+\d+-?\d*\s+(BEFORE|AFTER) at k of a lower-cased s
match_weeks_before_or_after(s, k) ==
    LET w == weeks_number_at(s, k)
    IN  IF w[2] = 0 THEN 0
        ELSE IF skip_literal(s, w[2], "before") # 0 THEN skip_literal(s, w[2], "before") - 1
        ELSE IF skip_literal(s, w[2], "after") # 0 THEN skip_literal(s, w[2], "after") - 1
        ELSE 0

\* WEEK \d+ at k of a lower-cased s
match_week_number(s, k) ==
    LET a == skip_literal(s, k, "week ")
    IN  IF a = 0 \/ skip_digits(s, a) = 0 THEN 0 ELSE skip_digits(s, a) - 1

\* re.search(r'(WEEKS?\s+\d+-?\d*\s+(BEFORE|AFTER)|MOVING DAY|ARRIVAL|DAY AFTER|WEEK \d+)',
\*           line, re.IGNORECASE)
is_section_header_line(line) ==
    LET line_lower == lower(line)
    IN  \/ search(line_lower, match_weeks_before_or_after)[1] # 0
        \/ contains(line_lower, "moving day")
        \/ contains(line_lower, "arrival")
        \/ contains(line_lower, "day after")
        \/ search(line_lower, match_week_number)[1] # 0

\* the timeline and priority a header line sets (c unchanged when none does)
header_timeline(c, line) ==
    LET line_lower == lower(line)
        set(t, p) == [c EXCEPT !.current_timeline = t, !.current_priority = p]
    IN  IF contains(line_lower, "3-4 weeks") \/ contains(line_lower, "4 weeks")
        THEN set("3-4 weeks", "Medium")
        ELSE IF contains(line_lower, "1-2 weeks") \/ contains(line_lower, "2 weeks")
        THEN set("1-2 weeks", "High")
        ELSE IF contains(line_lower, "week of move")
        THEN set("week of move", "High")
        ELSE IF contains(line_lower, "moving day") /\ ~contains(line_lower, "before")
        THEN set("moving day", "High")
        ELSE IF contains(line_lower, "day after")
        THEN set("day after", "High")
        ELSE IF contains(line_lower, "week 1 after")
        THEN set("week 1 after", "Medium")
        ELSE IF contains(line_lower, "weeks 2-4 after")
        THEN set("weeks 2-4 after", "Low")
        ELSE c

\* \s*-\s*(Qty|...|Reserved/Purchased):?\s*_+ at k
match_trailing_placeholder(s, k) ==
    LET a == skip_literal(s, skip_spaces(s, k), "-")
    IN  IF a = 0 THEN 0
        ELSE placeholder_after(s, skip_spaces(s, a),
                 {"Qty", "Date", "Dates", "Platform", "Drop-off scheduled", "Rolls",
                  "Reserved/Purchased"})

\* re.sub(r'\s*-\s*(...):?\s*_+.*$', '', s): s cut at the leftmost match
cut_trailing_placeholder(s) ==
    LET hit == search(s, match_trailing_placeholder)
    IN  IF hit[1] = 0 THEN s ELSE SubSeq(s, 1, hit[1] - 1)

\* re.match(r'(Action|WEEK|MOVING|DAY|^\[)', next_line)
starts_new_item(next_line) ==
    \E head \in {"Action", "WEEK", "MOVING", "DAY", "["} : startswith(next_line, head)

infer_room(t) == classify(infer_room_keywords, lower(t), "General")

enhance_priority(t, base_priority) ==
    classify(enhance_priority_keywords, lower(t), base_priority)

create_task(task_text, section, timeline, priority) ==
    << <<"Source File", "moving_guide.txt">>,
       <<"Date Added", strftime(now)>>,
       <<"Room", infer_room(task_text)>>,
       <<"Task Description", prefix(task_text, 500)>>,
       <<"Priority", enhance_priority(task_text, priority)>>,
       <<"Status", "Not Started">>,
       <<"Assigned To", "">>,
       <<"Start Date", "">>,
       <<"Due Date",
            IF truthy(timeline) /\ table_has(parse_moving_guide_timeline_map, timeline)
            THEN strftime(add_days(parse_moving_guide_moving_day,
                     0 - table_get(parse_moving_guide_timeline_map, timeline)))
            ELSE "">>,
       <<"Completion Date", "">>,
       <<"Estimated Cost", "">>,
       <<"Actual Cost", "">>,
       <<"Notes", "Section: " \o section
                  \o (IF truthy(timeline) THEN " | Timeline: " \o timeline ELSE "")>> >>

\* the task text of an 'Action Step N:' line at (1-based) index k of ls
action_step_text(ls, k) ==
    LET task_text == strip(action_step_group(strip(ls[k])))
        next_line == IF k < Len(ls) THEN strip(ls[k + 1]) ELSE ""
    IN  IF next_line # "" /\ ~starts_new_item(next_line)
        THEN task_text \o " " \o next_line
        ELSE task_text

parse_moving_guide_line ==
    /\ op = "parse_moving_guide"
    /\ pc = "loop"
    /\ i <= Len(lines)
    /\ LET line == strip(lines[i])
           checkbox == checkbox_group(line)
           checkbox_text == cut_trailing_placeholder(strip(checkbox))
           emit(task_text) ==
               Append(out, create_task(task_text, cur.current_section,
                                       cur.current_timeline, cur.current_priority))
       IN  IF line = "" THEN UNCHANGED <<cur, out>>
           ELSE IF is_section_header_line(line)
           THEN /\ cur' = [header_timeline(cur, line) EXCEPT !.current_section = section_title(line)]
                /\ out' = out
           ELSE IF checkbox # None
           THEN /\ out' = IF Len(checkbox_text) > 5 THEN emit(checkbox_text) ELSE out
                /\ cur' = cur
           ELSE IF action_step_label(line) # 0 /\ action_step_group(line) # None
           THEN /\ out' = emit(action_step_text(lines, i))
                /\ cur' = cur
           ELSE UNCHANGED <<cur, out>>
    /\ i' = i + 1
    /\ UNCHANGED <<op, text, source_file, moving_day_date, now, lines, result, pc, run, first>>
    /\ UNCHANGED sheet_vars

parse_moving_guide_return ==
    /\ op = "parse_moving_guide"
    /\ pc = "loop"
    /\ i > Len(lines)
    /\ result' = DataFrame(out)
    /\ pc' = "done"
    /\ UNCHANGED <<op, text, source_file, moving_day_date, now, lines, i, cur, out, run, first>>
    /\ UNCHANGED sheet_vars

\* ------------------------------------------------------------------------
\* inputs
\* ------------------------------------------------------------------------
MaxLines == 3

\* every text of at most MaxLines lines drawn from vocab
TextsOver(vocab) ==
    {join("\n", ls) : ls \in UNION {[1..n -> vocab] : n \in 0..MaxLines}}

TransactionVocabulary ==
    {"", "Date: October 24, 2025", "Item: Kitchen Cabinets", "Cost: $3,500.00",
     "Vendor: Home Depot"}

\* an 'Item / Cost / Vendor / Status' block
TransactionBlock(d, a, v, s) ==
    "Item: " \o d \o "\nCost: " \o a \o "\nVendor: " \o v \o "\nStatus: " \o s

BlockDescriptions == {"Kitchen Cabinets", "Plumber visit", "Dinner"}
BlockAmounts      == {"$3,500.00", "$45"}
BlockVendors      == {"Home Depot", "Lowe's"}
BlockStatuses     == {"Paid", "Pending", "Refunded", "Disputed", "Unknown"}

TransactionBlocks ==
    {TransactionBlock(d, a, v, s) :
        d \in BlockDescriptions, a \in BlockAmounts, v \in BlockVendors, s \in BlockStatuses}

\* the sample of test_parser
TransactionSample ==
    "Budget & Expenses\nDate: October 24, 2025\n\n"
    \o "Item: Kitchen Cabinets\nCost: $3,500.00\nVendor: Home Depot\nStatus: Paid\n\n"
    \o "Item: Tile Flooring\nCost: $1,200.00\nVendor: Lowe's\nStatus: Pending\n\n"
    \o "Item: Paint Supplies\nCost: $450.00\nVendor: Sherwin Williams\nStatus: Paid"

TransactionTexts ==
    TextsOver(TransactionVocabulary) \cup TransactionBlocks
        \cup {TransactionSample,
              "Description: Plumber | 10/24/2025 $45",
              "Paid 2025-10-24 $1,200.50 from: Lowe's;\nItem: Tile",
              "Item: Kitchen Cabinets\n\nVendor: Home Depot\n\nItem: Tile\nStatus: Paid",
              "Status: Paid\nInvoice of Oct 5 2025",
              "Item: Kitchen Cabinets\nItem:\nVendor: Home Depot\nStatus: Paid",
              "Date: October 24, 2025 $10\nInvoice 10/25/2025 $20\nCost: $30\nItem: Tile",
              "Item: Rental of water heater license\nStatus: done, no problem",
              "  \n\t\n"}

TaskVocabulary ==
    {"", "Two Months Before Your Move", "Book a Mover", "[ ] Clean kitchen sink ASAP",
     "- Pack"}

\* three timeline headers, each followed by one task
TimelineSample ==
    "Two weeks before\nBook a Mover\nMoving Day\nRent the truck\nAfter moving\nUnpack boxes"

TaskTexts ==
    TextsOver(TaskVocabulary)
        \cup {"My to-do list today", "Moving Day\nBook a Mover\n(X) I must go", "abcde", "abcdef", "One week before moving day\nx Optional: paint later",
              "Fix the garage closet asap, optional", TimelineSample}

LongLine == "The house has an open floor plan with lots of natural light in the hallway."

RECURSIVE Repeat(_, _)
Repeat(s, n) ==
    IF n = 0 THEN ""
    ELSE IF n = 1 THEN s
    ELSE Repeat(s, n \div 2) \o Repeat(s, n - (n \div 2))

LayoutVocabulary ==
    {"", "Room: Kitchen", "Dimensions: 12' x 15'", "Master Bathroom", LongLine}

LayoutTexts ==
    TextsOver(LayoutVocabulary)
        \cup {Repeat(LongLine \o "\n", 7), Repeat("x", 200), Repeat("x", 201),
              Repeat("x", 500) \o "y", "The kitchen is large and very bright",
              "Notes: check wiring 10 ft x 12 ft", "Room: Attic\nNotes: check wiring\nStatus: ok",
              "Size: 9 feet x 4 feet\n" \o Repeat(LongLine \o "\n", 3) \o "3ft x 4ft",
              "Room: Kitchen\nRoom: Attic\nDimensions: 12' x 15'",
              "Room: Kitchen\nStatus: Gutted\nStatus: Finished",
              "Room: Master Bathroom\nAdjacent: Master Bedroom\nStatus: In progress",
              "Room: Kitchen\nNear: the hallway door\nBeside: a tall window"}

GuideVocabulary ==
    {"", "WEEKS 3-4 BEFORE MOVING DAY", "[ ] Book a Mover - Qty: ___", "Action Step 1: Pack",
     "Packing Checklist:"}

GuideTexts ==
    TextsOver(GuideVocabulary)
        \cup {"hello", "MOVING DAY\n[ ] Book a Mover - Qty: ___\n[ ] Essential first aid kit",
              "Intro [ ] Buy tape and boxes [ ] Rent a dolly - Qty: __",
              "WEEK OF MOVE\n[x] Confirm truck rental - Date: ____",
              "Action Step 2: Pack the kitchen dishes first\nbefore anything else",
              "[ ] abc", "Action Step 3:",
              "[ ] Confirm arrival time\n[ ] Print the moving checklist\n[x] Read the city guide",
              "Action Step 1: Load the truck\nArrival Day\n[x] Unpack the boxes",
              "Action Step 1: Load the truck\naction step 2: Drive slowly",
              "MOVING DAY\n[ ] Final walkthrough, optional\n[ ] Update the address book\nAction Step 1: Explore the area first",
              "WEEKS 2-4 AFTER MOVE\n[ ] Optional: hang the pictures\n[ ] Must register the car",
              "WEEKS 3-4 BEFORE MOVING DAY\n[x] Book a Mover - Qty: ___\nWEEK OF MOVE\n[x] Load the boxes\nWEEK 1 AFTER MOVE\n[x] Hang the pictures",
              "WEEKS 1-2 BEFORE MOVING DAY\nDAY AFTER MOVE\nWEEKS 2-4 AFTER MOVE\n[x] Hang the pictures",
              "3-4 WEEKS BEFORE MOVING DAY\n[x] Book a Mover now\n1-2 WEEKS BEFORE MOVING DAY\n[x] Load the boxes",
              "WEEKS 1-2 BEFORE MOVING DAY\n[x] Load the boxes\nWEEK 2 AFTER MOVE\n[x] Hang the pictures"}

\* the phrases _calculate_due_date is applied to
TimelinePhrases ==
    {MovingGuideParser_timeline_mappings[k][1] : k \in 1..Len(MovingGuideParser_timeline_mappings)}
        \cup {"", "Moving Day", "2 Weeks Before", "about 2 weeks before the move",
              "someday", "1 weeks before", "next week", "moving", "weeks before"}

D(y, m, d) == [year |-> y, month |-> m, day |-> d]

\* the longest sequence of upload_dataframe calls on one worksheet
MaxUploads == 2

\* the DataFrames handed to upload_dataframe directly
UploadFrames ==
    {EmptyDataFrame(<<"Room", "Task Description">>),
     DataFrame(<< << <<"Room", "Kitchen">>, <<"Task Description", "Fix sink">> >> >>),
     DataFrame(<< << <<"Room", "Bathroom">>, <<"Task Description", "Paint wall">> >>,
                  << <<"Room", "Outdoor">>, <<"Task Description", "Mow lawn">> >> >>)}

\* what the worksheet holds before the first call
InitialWorksheets ==
    {<<>>, << <<"Room", "Task Description">>, <<"Garage", "Sweep floor">> >>}

\* config['ocr']['image_mappings'].get(image_filename)
ImageMappings == {"Budget & Expenses", "Task Tracker", "Property Layout", None}

\* the parser upload_ocr_results runs for a worksheet
parser_of(name) ==
    IF name = "Budget & Expenses" THEN "parse_transactions"
    ELSE IF name = "Task Tracker" THEN "parse_tasks"
    ELSE IF name = "Property Layout" THEN "parse_layout"
    ELSE None

\* the texts handed to upload_ocr_results
OcrTexts == {"", "Item: Tile\nCost: $30", "Fix the sink", "Two weeks before"}

\* the values datetime.now() takes
Nows == {D(2025, 10, 20), D(2025, 12, 28)}

Ops == {"parse_transactions", "parse_tasks", "parse_layout", "parse_guide",
        "parse_moving_guide", "_calculate_due_date"}

TextsOf(o) ==
    IF o = "parse_transactions" THEN TransactionTexts
    ELSE IF o = "parse_tasks" THEN TaskTexts
    ELSE IF o = "parse_layout" THEN LayoutTexts
    ELSE IF o = "_calculate_due_date" THEN TimelinePhrases
    ELSE GuideTexts

InitLines(o, t) ==
    IF o = "parse_guide" THEN split_lines(t)
    ELSE IF o = "parse_moving_guide" THEN split_lines(preprocess_text(t))
    ELSE IF o = "_calculate_due_date" THEN <<>>
    ELSE clean_lines(t)

InitCur(o) ==
    IF o = "parse_tasks" THEN [current_timeline |-> None, current_due_date |-> None]
    ELSE IF o = "parse_layout" THEN NoRoom
    ELSE IF o = "parse_guide"
    THEN [current_section |-> None, current_timeline |-> None, current_priority |-> "medium"]
    ELSE IF o = "parse_moving_guide"
    THEN [current_section |-> "", current_timeline |-> None, current_priority |-> "Medium"]
    ELSE EmptyDict

\* ------------------------------------------------------------------------
\* GoogleSheetsManager (google_sheets_integration.py)
\* ------------------------------------------------------------------------
\* A worksheet is the sequence of its rows, a row the sequence of its cells.
\* A call of the sink either takes effect and returns, or raises and leaves
\* the worksheet as it was.
max_retries == 3

larger(a, b) == IF a >= b THEN a ELSE b

\* datetime.now().strftime("%Y-%m-%d %H:%M:%S"); the dates of the model are
\* taken at midnight
strftime_seconds(d) == strftime(d) \o " 00:00:00"

\* df.insert(0, 'Upload_Timestamp', stamp)
insert_timestamp(d, stamp) ==
    [columns |-> <<"Upload_Timestamp">> \o d.columns,
     rows    |-> [k \in 1..Len(d.rows) |-> << <<"Upload_Timestamp", stamp>> >> \o d.rows[k]]]

\* df.values.tolist()
values_tolist(d) ==
    [k \in 1..Len(d.rows) |-> [c \in 1..Len(d.columns) |-> field(d.rows[k], d.columns[c])]]

\* [df.columns.values.tolist()] + df.values.tolist()
to_data(d) == <<d.columns>> \o values_tolist(d)

\* worksheet.get_all_values()
get_all_values(ws) == ws

\* worksheet.update('A1', values): the cells of values are written from the
\* top-left corner, every other cell is kept
update_A1(ws, cells) ==
    [r \in 1..larger(Len(ws), Len(cells)) |->
        IF r > Len(cells) THEN ws[r]
        ELSE IF r > Len(ws) THEN cells[r]
        ELSE [c \in 1..larger(Len(ws[r]), Len(cells[r])) |->
                 IF c <= Len(cells[r]) THEN cells[r][c] ELSE ws[r][c]]]

\* worksheet.append_rows(values)
append_rows(ws, cells) == ws \o cells

\* _upload_with_retry with an except branch that always re-raises
raises_at_once(n) == FALSE

\* an append-mode upload that takes every worksheet for an empty one
takes_for_empty(existing_data) == TRUE

\* not existing_data or len(existing_data) == 0
has_no_rows(existing_data) == existing_data = <<>> \/ Len(existing_data) = 0

\* the except branch of one attempt: sleep and go on, or re-raise
retries_after_failure(n) == n < max_retries - 1

\* upload_dataframe reporting success whatever happened
reports_success(outcome) == TRUE

\* what upload_dataframe hands back: True after the upload, False from the
\* except branch
upload_dataframe_result(outcome) == outcome = "uploaded"

\* the record stored for an image with no parser of its own
text_record(image_filename, extracted_text, today) ==
    << <<"Source File", image_filename>>,
       <<"Date", strftime(today)>>,
       <<"Extracted Text", extracted_text>> >>

\* upload_ocr_results after parse_transactions / parse_tasks / parse_layout
\* has returned its DataFrame
upload_ocr_results_parsed ==
    /\ call = "upload_ocr_results"
    /\ op \in {"parse_transactions", "parse_tasks", "parse_layout"}
    /\ pc = "done"
    /\ IF Len(result.rows) = 0
       THEN /\ returned' = FALSE
            /\ pc' = "returned"
            /\ UNCHANGED <<df, mode, add_timestamp>>
       ELSE /\ df' = result
            /\ mode' = "append"
            /\ add_timestamp' = FALSE
            /\ pc' = "upload_dataframe"
            /\ UNCHANGED returned
    /\ UNCHANGED <<parser_vars, call, worksheet_name, worksheet, values, append,
                   attempt, sink_calls, before, calls>>

\* upload_ocr_results for any other worksheet: a one-row text record
upload_ocr_results_text_record ==
    /\ call = "upload_ocr_results"
    /\ op = None
    /\ pc = "loop"
    /\ df' = DataFrame(<<text_record(source_file, text, now)>>)
    /\ mode' = "append"
    /\ add_timestamp' = FALSE
    /\ pc' = "upload_dataframe"
    /\ UNCHANGED <<op, text, source_file, moving_day_date, now, lines, i, cur, out,
                   result, run, first>>
    /\ UNCHANGED <<call, worksheet_name, worksheet, values, append, attempt,
                   sink_calls, returned, before, calls>>

\* upload_dataframe up to the call of _upload_with_retry; get_worksheet,
\* clear and get_all_values may raise
upload_dataframe ==
    /\ pc = "upload_dataframe"
    /\ before' = worksheet
    /\ sink_calls' = <<>>
    /\ attempt' = 0
    /\ \E sink_ok \in BOOLEAN :
         IF ~sink_ok
         THEN /\ pc' = "raised"
              /\ UNCHANGED <<worksheet, values, append>>
         ELSE LET stamped == IF add_timestamp
                             THEN insert_timestamp(df, strftime_seconds(now))
                             ELSE df
                  d == to_data(stamped)
              IN  IF mode = "replace"
                  THEN /\ worksheet' = <<>>
                       /\ values' = d
                       /\ append' = FALSE
                       /\ pc' = "_upload_with_retry"
                  ELSE IF mode = "append"
                  THEN /\ IF has_no_rows(get_all_values(worksheet))
                          THEN values' = d /\ append' = FALSE
                          ELSE values' = Tail(d) /\ append' = TRUE
                       /\ pc' = "_upload_with_retry"
                       /\ UNCHANGED worksheet
                  ELSE /\ pc' = "uploaded"
                       /\ UNCHANGED <<worksheet, values, append>>
    /\ UNCHANGED <<parser_vars, call, worksheet_name, df, mode, add_timestamp,
                   returned, calls>>

\* one turn of the loop of _upload_with_retry
upload_with_retry ==
    /\ pc = "_upload_with_retry"
    /\ \E sink_ok \in BOOLEAN :
         IF attempt >= max_retries     \* range(max_retries) is used up
         THEN /\ pc' = "uploaded"
              /\ UNCHANGED <<worksheet, sink_calls, attempt>>
         ELSE IF sink_ok
         THEN /\ worksheet' = IF append THEN append_rows(worksheet, values)
                              ELSE update_A1(worksheet, values)
              /\ sink_calls' = Append(sink_calls, "ok")
              /\ pc' = "uploaded"
              /\ UNCHANGED attempt
         ELSE IF retries_after_failure(attempt)
         THEN /\ sink_calls' = sink_calls \o <<"error", "sleep">>
              /\ attempt' = attempt + 1
              /\ UNCHANGED <<worksheet, pc>>
         ELSE /\ sink_calls' = Append(sink_calls, "error")
              /\ pc' = "raised"
              /\ UNCHANGED <<worksheet, attempt>>
    /\ UNCHANGED <<parser_vars, call, worksheet_name, df, mode, add_timestamp,
                   values, append, returned, before, calls>>

\* upload_dataframe hands its result to the caller
upload_dataframe_return ==
    /\ pc \in {"uploaded", "raised"}
    /\ returned' = upload_dataframe_result(pc)
    /\ calls' = Append(calls, [data |-> to_data(IF add_timestamp
                                                 THEN insert_timestamp(df, strftime_seconds(now))
                                                 ELSE df),
                               mode |-> mode,
                               before |-> before,
                               returned |-> upload_dataframe_result(pc)])
    /\ pc' = "returned"
    /\ UNCHANGED <<parser_vars, call, worksheet_name, worksheet, df, mode,
                   add_timestamp, values, append, attempt, sink_calls, before>>

\* the caller uploads another DataFrame to the same worksheet, in the same
\* mode; the locals of the call before are gone
upload_dataframe_again ==
    /\ call = "upload_dataframe"
    /\ pc = "returned"
    /\ Len(calls) < MaxUploads
    /\ df' \in UploadFrames
    /\ returned' = None
    /\ values' = <<>>
    /\ append' = FALSE
    /\ attempt' = 0
    /\ sink_calls' = <<>>
    /\ before' = worksheet
    /\ pc' = "upload_dataframe"
    /\ UNCHANGED <<parser_vars, call, worksheet_name, worksheet, mode, add_timestamp, calls>>

\* the state when the call op(text) starts, at date n, with anchor argument a
Start(o, t, a, n) ==
    /\ op = o
    /\ text = t
    /\ source_file = "notes.jpg"
    /\ moving_day_date = a
    /\ now = n
    /\ lines = InitLines(o, t)
    /\ i = 1
    /\ cur = InitCur(o)
    /\ out = <<>>
    /\ result = None
    /\ pc = "loop"
    /\ run = 1
    /\ first = None

\* the moving_day_date arguments of the checklist parsers
AnchorsOf(o) ==
    IF o \in {"parse_guide", "parse_moving_guide"} THEN {None, "2025-11-01"}
    ELSE IF o = "_calculate_due_date" THEN {None, "2025-11-01", "2024-03-10", "2026-01-05"}
    ELSE {None}

\* no GoogleSheetsManager call is running
Idle ==
    /\ call = None
    /\ worksheet_name = None
    /\ worksheet = <<>>
    /\ df = EmptyDataFrame(<<>>)
    /\ mode = None
    /\ add_timestamp = FALSE
    /\ values = <<>>
    /\ append = FALSE
    /\ attempt = 0
    /\ sink_calls = <<>>
    /\ returned = None
    /\ before = <<>>
    /\ calls = <<>>

\* the state when upload_ocr_results(image_filename, extracted_text) starts
upload_ocr_results_called(mapped, t, n, ws) ==
    /\ Start(parser_of(mapped), t, None, n)
    /\ call = "upload_ocr_results"
    /\ worksheet_name = IF mapped = None THEN "OCR Results" ELSE mapped
    /\ worksheet = ws
    /\ df = EmptyDataFrame(<<>>)
    /\ mode = None
    /\ add_timestamp = FALSE
    /\ values = <<>>
    /\ append = FALSE
    /\ attempt = 0
    /\ sink_calls = <<>>
    /\ returned = None
    /\ before = ws
    /\ calls = <<>>

\* the state when upload_dataframe(df, "Task Tracker", mode, add_timestamp) starts
upload_dataframe_called(d, m, stamp, n, ws) ==
    /\ op = None
    /\ text = ""
    /\ source_file = "notes.jpg"
    /\ moving_day_date = None
    /\ now = n
    /\ lines = <<>>
    /\ i = 1
    /\ cur = EmptyDict
    /\ out = <<>>
    /\ result = None
    /\ pc = "upload_dataframe"
    /\ run = 1
    /\ first = None
    /\ call = "upload_dataframe"
    /\ worksheet_name = "Task Tracker"
    /\ worksheet = ws
    /\ df = d
    /\ mode = m
    /\ add_timestamp = stamp
    /\ values = <<>>
    /\ append = FALSE
    /\ attempt = 0
    /\ sink_calls = <<>>
    /\ returned = None
    /\ before = ws
    /\ calls = <<>>

Init ==
    \/ /\ \E o \in Ops : \E t \in TextsOf(o) : \E a \in AnchorsOf(o) : \E n \in Nows :
            Start(o, t, a, n)
       /\ Idle
    \/ \E mapped \in ImageMappings : \E t \in OcrTexts : \E n \in Nows :
       \E ws \in InitialWorksheets :
            upload_ocr_results_called(mapped, t, n, ws)
    \/ \E d \in UploadFrames : \E m \in {"append", "replace"} : \E stamp \in BOOLEAN :
       \E ws \in InitialWorksheets :
            upload_dataframe_called(d, m, stamp, D(2025, 10, 20), ws)

\* the same text parsed again, at another date
Reparse ==
    /\ call = None
    /\ pc = "done"
    /\ run = 1
    /\ first' = result
    /\ run' = 2
    /\ now' \in Nows \ {now}
    /\ lines' = InitLines(op, text)
    /\ i' = 1
    /\ cur' = InitCur(op)
    /\ out' = <<>>
    /\ result' = None
    /\ pc' = "loop"
    /\ UNCHANGED <<op, text, source_file, moving_day_date>>
    /\ UNCHANGED sheet_vars

Next ==
    \/ Transaction_parse_line
    \/ Transaction_return
    \/ Task_parse_line
    \/ Task_return
    \/ Layout_parse_line
    \/ Layout_return
    \/ Guide_parse_line
    \/ Guide_return
    \/ Guide_calculate_due_date
    \/ parse_moving_guide_line
    \/ parse_moving_guide_return
    \/ Reparse
    \/ upload_ocr_results_parsed
    \/ upload_ocr_results_text_record
    \/ upload_dataframe
    \/ upload_with_retry
    \/ upload_dataframe_return
    \/ upload_dataframe_again

Spec == Init /\ [][Next]_vars

\* ------------------------------------------------------------------------
\* properties
\* ------------------------------------------------------------------------
ParserOps == {"parse_transactions", "parse_tasks", "parse_layout", "parse_guide",
              "parse_moving_guide"}

ChecklistOps == {"parse_guide", "parse_moving_guide"}

TaskOps == {"parse_tasks", "parse_guide", "parse_moving_guide"}

\* the documented column list of the document type a parser produces
ColumnsOf(o) ==
    IF o = "parse_transactions" THEN TRANSACTION_COLUMNS
    ELSE IF o = "parse_layout" THEN LAYOUT_COLUMNS
    ELSE TASK_COLUMNS

ColumnCountOf(o) ==
    IF o = "parse_transactions" THEN 11 ELSE IF o = "parse_layout" THEN 9 ELSE 13

has_field(r, key) == \E k \in 1..Len(r) : r[k][1] = key

\* C1: every record emitted by the five parsers has exactly the column list
\* of its document type (11 transaction, 13 task, 9 layout columns), in the
\* documented order, whichever fields were found.
C1_FixedColumns ==
    op \in ParserOps =>
        /\ Len(ColumnsOf(op)) = ColumnCountOf(op)
        /\ \A k \in 1..Len(out) : record_keys(out[k]) = ColumnsOf(op)
        /\ (pc = "done" /\ result.rows # <<>>) =>
               /\ result.columns = ColumnsOf(op)
               /\ \A k \in 1..Len(result.rows) : record_keys(result.rows[k]) = ColumnsOf(op)

\* a transaction with no vendor and no date found and a task with no due date
\* have been emitted with all their columns
C1_Witness ==
    \/ /\ op = "parse_transactions"
       /\ pc = "done"
       /\ Len(result.rows) >= 2
       /\ field(result.rows[1], "Vendor") = ""
       /\ field(result.rows[1], "Transaction Date") = ""
       /\ Len(record_keys(result.rows[1])) = 11
    \/ /\ op = "parse_moving_guide"
       /\ pc = "done"
       /\ Len(result.rows) >= 2
       /\ field(result.rows[1], "Due Date") = ""
       /\ Len(record_keys(result.rows[1])) = 13

\* C2: when no record is extracted, parse_transactions, parse_tasks,
\* parse_guide and parse_moving_guide return an empty result that carries the
\* full column list of the document type.
C2_EmptyResultKeepsColumns ==
    (op \in ParserOps \ {"parse_layout"} /\ pc = "done" /\ result.rows = <<>>) =>
        result.columns = ColumnsOf(op)

\* rows a and b agree in every column outside the set except
rows_equal_except(a, b, except) ==
    /\ Len(a) = Len(b)
    /\ \A k \in 1..Len(a) :
          /\ record_keys(a[k]) = record_keys(b[k])
          /\ \A c \in 1..Len(a[k]) : a[k][c][1] \in except \/ a[k][c] = b[k][c]

\* C3 as stated: two parses of the same text at two different current dates
\* give records equal in every column except Date Added.
C3_EqualExceptDateAdded ==
    (op \in ParserOps /\ run = 2 /\ pc = "done") =>
        rows_equal_except(first.rows, result.rows, {"Date Added"})

\* the Due Date is computed from the current date: always in parse_tasks, and
\* in the checklist parsers when no moving_day_date argument is given
due_date_follows_now ==
    op = "parse_tasks" \/ (op \in ChecklistOps /\ moving_day_date = None)

\* C3 amended: two parses of the same text at two different current dates
\* give records equal in every column except Date Added and, where the due
\* date is anchored on the current date (parse_tasks; the checklist parsers
\* called without moving_day_date), except Due Date.
C3_EqualExceptDateAddedAndRelativeDueDate ==
    (op \in ParserOps /\ run = 2 /\ pc = "done") =>
        rows_equal_except(first.rows, result.rows,
            IF due_date_follows_now THEN {"Date Added", "Due Date"} ELSE {"Date Added"})

\* a checklist with an explicit moving day has been parsed at two dates and
\* the dated task has the same Due Date both times
C3_Witness ==
    /\ op = "parse_guide"
    /\ moving_day_date = "2025-11-01"
    /\ run = 2
    /\ pc = "done"
    /\ Len(result.rows) >= 1
    /\ field(result.rows[1], "Due Date") = "2025-10-11"
    /\ field(first.rows[1], "Due Date") = "2025-10-11"
    /\ field(first.rows[1], "Date Added") # field(result.rows[1], "Date Added")

status_class(s) == classify(TransactionParser_status_keywords, lower(s), "Pending")

category_class(d) == classify(TransactionParser_category_keywords, lower(d), "Other")

\* C4: a block 'Item: d / Cost: a / Vendor: v / Status: s' followed by end of
\* input yields exactly one record with Description d, Amount a, Vendor v,
\* Status the status class of s and Category the keyword class of d; the
\* Kitchen Cabinets block gives Status 'Paid' and Category 'Materials'.
C4_ItemCostVendorStatusBlock ==
    (op = "parse_transactions" /\ pc = "done") =>
        /\ \A d \in BlockDescriptions, a \in BlockAmounts, v \in BlockVendors, s \in BlockStatuses :
              text = TransactionBlock(d, a, v, s) =>
                  /\ Len(result.rows) = 1
                  /\ field(result.rows[1], "Description") = d
                  /\ field(result.rows[1], "Amount") = a
                  /\ field(result.rows[1], "Vendor") = v
                  /\ field(result.rows[1], "Status") = status_class(s)
                  /\ field(result.rows[1], "Category") = category_class(d)
        /\ text = TransactionBlock("Kitchen Cabinets", "$3,500.00", "Home Depot", "Paid") =>
              /\ field(result.rows[1], "Status") = "Paid"
              /\ field(result.rows[1], "Category") = "Materials"

C4_Witness ==
    /\ op = "parse_transactions"
    /\ pc = "done"
    /\ text = TransactionBlock("Kitchen Cabinets", "$3,500.00", "Home Depot", "Paid")
    /\ Len(result.rows) = 1
    /\ field(result.rows[1], "Category") = "Materials"

anchor_date ==
    IF moving_day_date # None THEN strptime(moving_day_date)
    ELSE fromordinal(toordinal(now) + 14)

\* C6: for a phrase that is a key of the timeline table with offset d and an
\* anchor date A, _calculate_due_date returns A minus d days ('moving day'
\* gives 2025-11-01 and '2 weeks before' gives 2025-10-18 for A = 2025-11-01);
\* a phrase that neither equals nor contains a key gives no due date.
C6_DueDateIsAnchorMinusOffset ==
    (op = "_calculate_due_date" /\ pc = "done") =>
        /\ \A k \in 1..Len(MovingGuideParser_timeline_mappings) :
              text = MovingGuideParser_timeline_mappings[k][1] =>
                  /\ result # None
                  /\ strftime(strptime(result)) = result
                  /\ toordinal(strptime(result)) =
                         toordinal(anchor_date) - MovingGuideParser_timeline_mappings[k][2]
        /\ (moving_day_date = "2025-11-01" /\ text = "moving day") => result = "2025-11-01"
        /\ (moving_day_date = "2025-11-01" /\ text = "2 weeks before") => result = "2025-10-18"
        /\ (\A k \in 1..Len(MovingGuideParser_timeline_mappings) :
                ~contains(lower(text), MovingGuideParser_timeline_mappings[k][1])) =>
               result = None

C6_Witness ==
    /\ op = "_calculate_due_date"
    /\ pc = "done"
    /\ moving_day_date = "2025-11-01"
    /\ text = "2 weeks before"
    /\ result = "2025-10-18"

BookAMoverLine == "[ ] Book a Mover - Qty: ___"

\* C7: in both checklist parsers the line '[ ] Book a Mover - Qty: ___', read
\* while no timeline section is active, adds exactly one task with Task
\* Description 'Book a Mover', Room 'General', Medium priority and an empty
\* Due Date.
C7_CheckboxWithoutTimeline ==
    [][(/\ op \in ChecklistOps
        /\ pc = "loop"
        /\ i <= Len(lines)
        /\ strip(lines[i]) = BookAMoverLine
        /\ cur.current_timeline = None) =>
       (/\ Len(out') = Len(out) + 1
        /\ SubSeq(out', 1, Len(out)) = out
        /\ field(out'[Len(out')], "Task Description") = "Book a Mover"
        /\ field(out'[Len(out')], "Room") = "General"
        /\ field(out'[Len(out')], "Priority") = "Medium"
        /\ field(out'[Len(out')], "Due Date") = "")]_vars

\* the checkbox line has been read under a section without timeline, in
\* either parser
C7_Witness ==
    /\ op \in ChecklistOps
    /\ pc = "loop"
    /\ i > 2
    /\ strip(lines[i - 1]) = BookAMoverLine
    /\ cur.current_timeline = None
    /\ cur.current_section = "Packing Checklist"
    /\ Len(out) >= 1
    /\ field(out[Len(out)], "Task Description") = "Book a Mover"
    /\ field(out[Len(out)], "Due Date") = ""

\* C8: no record emitted by parse_tasks, parse_guide or parse_moving_guide
\* has a Task Description of 5 characters or fewer.
C8_NoShortTaskDescription ==
    op \in TaskOps =>
        \A k \in 1..Len(out) : Len(field(out[k], "Task Description")) > 5

\* s is a YYYY-MM-DD date string
is_iso_date(s) ==
    /\ Len(s) = 10
    /\ digits_at(s, 1, 4)
    /\ SubSeq(s, 5, 5) = "-"
    /\ digits_at(s, 6, 2)
    /\ SubSeq(s, 8, 8) = "-"
    /\ digits_at(s, 9, 2)
    /\ int_of(SubSeq(s, 6, 7)) \in 1..12
    /\ int_of(SubSeq(s, 9, 10)) \in 1..31

empty_or_iso(r, key) == has_field(r, key) => (field(r, key) = "" \/ is_iso_date(field(r, key)))

\* C9 as stated: Transaction Date, Due Date and Date Added of every emitted
\* record are empty or in YYYY-MM-DD format.
C9_AllDatesIso ==
    op \in ParserOps =>
        \A k \in 1..Len(out) :
            /\ empty_or_iso(out[k], "Transaction Date")
            /\ empty_or_iso(out[k], "Due Date")
            /\ empty_or_iso(out[k], "Date Added")

\* C9 amended: Due Date and Date Added of every emitted record are empty or
\* in YYYY-MM-DD format; Transaction Date is empty or the date text exactly
\* as it was matched on a line of the input, in the notation of that line.
C9_ComputedDatesIsoTransactionDateVerbatim ==
    op \in ParserOps =>
        \A k \in 1..Len(out) :
            /\ empty_or_iso(out[k], "Due Date")
            /\ is_iso_date(field(out[k], "Date Added"))
            /\ has_field(out[k], "Transaction Date") =>
                   \/ field(out[k], "Transaction Date") = ""
                   \/ \E j \in 1..Len(lines) :
                          field(out[k], "Transaction Date") = TransactionParser_extract_date(lines[j])

\* a transaction dated in words and a task with a computed due date have
\* been emitted
C9_Witness ==
    \/ /\ op = "parse_transactions"
       /\ Len(out) >= 1
       /\ field(out[1], "Transaction Date") = "October 24, 2025"
       /\ is_iso_date(field(out[1], "Date Added"))
    \/ /\ op = "parse_tasks"
       /\ Len(out) >= 1
       /\ is_iso_date(field(out[1], "Due Date"))

\* the indices, in text.split('\n'), of the lines parse_transactions keeps
kept_line_indices ==
    LET raw == split_lines(text)
    IN  SelectSeq([j \in 1..Len(raw) |-> j], LAMBDA j : strip(raw[j]) # "")

\* the k-th kept line follows a blank line of the input
follows_blank_line(k) ==
    LET raw == split_lines(text)
        j   == kept_line_indices[k]
    IN  j > 1 /\ strip(raw[j - 1]) = ""

\* C10: a blank line ends the transaction under construction: when a line
\* that follows a blank line is read, no partial record holding a
\* description or an amount from before the blank line is still open.
C10_BlankLineEndsTransaction ==
    (op = "parse_transactions" /\ pc = "loop" /\ 1 < i /\ i <= Len(lines)
        /\ follows_blank_line(i)) =>
        ~has_description_or_amount(cur)

\* the timeline key a task of parse_tasks was read under, from its Notes
task_timeline(r) == drop_prefix(field(r, "Notes"), Len("Timeline: "))

\* the table offset of the timeline a task of parse_tasks was read under
task_offset(r) == table_get(TaskParser_timeline_mappings, task_timeline(r))

due_ordinal(r) == toordinal(strptime(field(r, "Due Date")))

\* C11: in parse_tasks the Due Date of a task under a timeline header with
\* table offset d is one common anchor date minus d days: for any two tasks
\* of a parse, due date plus offset is the same date, so a task under a
\* header with a larger offset ('two weeks before') is never due later than
\* one under a smaller offset ('moving day', 'after moving').
C11_DueDateIsCommonAnchorMinusOffset ==
    op = "parse_tasks" =>
        \A a \in 1..Len(out) : \A b \in 1..Len(out) :
            (field(out[a], "Notes") # "" /\ field(out[b], "Notes") # "") =>
                /\ due_ordinal(out[a]) + task_offset(out[a]) =
                       due_ordinal(out[b]) + task_offset(out[b])
                /\ task_offset(out[a]) >= task_offset(out[b]) =>
                       due_ordinal(out[a]) <= due_ordinal(out[b])

\* C12: in parse_layout every line that begins with the 'Room:' label opens
\* a new room block, whatever name follows the label: the room under
\* construction, if any, is emitted as a record and a fresh partial record is
\* started for the labelled room.
C12_RoomLabelOpensBlock ==
    [][(/\ op = "parse_layout"
        /\ pc = "loop"
        /\ i <= Len(lines)
        /\ starts_with_room_label(lower(lines[i]))) =>
       (/\ truthy(cur'.current_room)
        /\ cur' = [NoRoom EXCEPT !.current_room = cur'.current_room]
        /\ out' = IF truthy(cur.current_room)
                  THEN Append(out, LayoutParser_create_layout_record(cur, source_file))
                  ELSE out)]_vars

\* C13: in parse_layout, within one room block the first status line wins:
\* once the block has a Current Status, a later line of the same block (one
\* that opens no room) does not change it.
C13_FirstStatusWins ==
    [][(/\ op = "parse_layout"
        /\ pc = "loop"
        /\ i <= Len(lines)
        /\ truthy(cur.current_room)
        /\ truthy(cur.current_status)
        /\ ~truthy(LayoutParser_extract_room(lines[i]))) =>
       cur'.current_status = cur.current_status]_vars

\* an 'Adjacent:', 'Near:' or 'Beside:' line
is_adjacent_line(line) ==
    \E l \in {"adjacent:", "near:", "beside:"} : startswith(lower(line), l)

\* C14: in parse_layout a line labelled 'Adjacent:', 'Near:' or 'Beside:'
\* read while a room block is active is appended to that room's Adjacent To
\* list and neither ends the block nor opens a new room, also when its value
\* names a known room ('Adjacent: Master Bedroom').
C14_AdjacentLineStaysInBlock ==
    [][(/\ op = "parse_layout"
        /\ pc = "loop"
        /\ i <= Len(lines)
        /\ truthy(cur.current_room)
        /\ is_adjacent_line(lines[i])) =>
       (/\ out' = out
        /\ cur'.current_room = cur.current_room
        /\ cur'.current_adjacent =
               Append(cur.current_adjacent, strip(after_first(lines[i], ":"))))]_vars

\* the cleaned text of a checkbox line '[ ] <text>' when it is longer than 5
\* characters, as parser o cleans it; None otherwise
checkbox_task_text(o, line) ==
    IF checkbox_group(line) = None THEN None
    ELSE IF o = "parse_guide" THEN MovingGuideParser_extract_checklist_item(line)
    ELSE IF Len(cut_trailing_placeholder(strip(checkbox_group(line)))) > 5
    THEN cut_trailing_placeholder(strip(checkbox_group(line)))
    ELSE None

\* C15: in both checklist parsers every line '[ ] <text>' (or '[x]', '[X]')
\* whose cleaned text is longer than 5 characters adds exactly one task
\* record with that text, whatever words the text contains and whatever the
\* section-header rule says about the line.
C15_CheckboxLineGivesOneTask ==
    [][(/\ op \in ChecklistOps
        /\ pc = "loop"
        /\ i <= Len(lines)
        /\ checkbox_task_text(op, strip(lines[i])) # None) =>
       (/\ Len(out') = Len(out) + 1
        /\ SubSeq(out', 1, Len(out)) = out
        /\ field(out'[Len(out')], "Task Description") =
               checkbox_task_text(op, strip(lines[i])))]_vars

\* line is one parse_moving_guide treats as a section header, a checkbox
\* item or an action step
is_header_or_item(line) ==
    \/ is_section_header_line(line)
    \/ checkbox_group(line) # None
    \/ action_step_label(line) # 0

\* C16: in parse_moving_guide the line following an 'Action Step N:' line is
\* not concatenated to the task text when that following line is itself a
\* section header, a checkbox item or another action step: the task emitted
\* for the action step then carries the text of its own line only.
C16_NoHeaderOrItemInContinuation ==
    [][(/\ op = "parse_moving_guide"
        /\ pc = "loop"
        /\ i < Len(lines)
        /\ ~is_section_header_line(strip(lines[i]))
        /\ checkbox_group(strip(lines[i])) = None
        /\ action_step_group(strip(lines[i])) # None
        /\ is_header_or_item(strip(lines[i + 1]))) =>
       (/\ Len(out') = Len(out) + 1
        /\ field(out'[Len(out')], "Task Description") =
               strip(action_step_group(strip(lines[i]))))]_vars

\* the keywords of the task text that decide its priority
HighKeywords ==
    {"essential", "critical", "first", "immediate", "safety", "urgent", "must",
     "priority 1", "important"}

MediumKeywords == {"priority 2", "day 1", "verify", "confirm", "update"}

LowKeywordsOf(o) ==
    IF o = "parse_guide" THEN {"priority 3", "week 1-2", "explore", "final"}
    ELSE {"priority 3", "explore", "final", "optional"}

contains_any(t, ws) == \E w \in ws : contains(lower(t), w)

\* the Priority value of a section default
priority_label(p) ==
    IF p \in {"high", "High"} THEN "High"
    ELSE IF p \in {"low", "Low"} THEN "Low"
    ELSE "Medium"

\* a step of a checklist parser that emits a task
emits_task ==
    /\ op \in ChecklistOps
    /\ pc = "loop"
    /\ i <= Len(lines)
    /\ Len(out') = Len(out) + 1

\* C17 as stated: the Priority of an emitted task is High when its text
\* contains a high-priority keyword, Low when it contains a low-priority
\* keyword, and otherwise the default priority of the section active when it
\* was read; no other word changes it.
C17_PriorityIsSectionDefaultUnlessHighOrLow ==
    [][emits_task =>
       LET r == out'[Len(out')]
           t == field(r, "Task Description")
       IN  field(r, "Priority") =
               IF contains_any(t, HighKeywords) THEN "High"
               ELSE IF contains_any(t, LowKeywordsOf(op)) THEN "Low"
               ELSE priority_label(cur.current_priority)]_vars

\* C17 amended: the keywords are tried in the order high, medium, low, and
\* MovingGuideParser.parse_guide has medium-priority keywords as well, which
\* set Medium under any section; parse_moving_guide has none. Without a
\* keyword the Priority is the default of the active section.
C17_PriorityIsSectionDefaultUnlessKeyword ==
    [][emits_task =>
       LET r == out'[Len(out')]
           t == field(r, "Task Description")
       IN  field(r, "Priority") =
               IF contains_any(t, HighKeywords) THEN "High"
               ELSE IF op = "parse_guide" /\ contains_any(t, MediumKeywords) THEN "Medium"
               ELSE IF contains_any(t, LowKeywordsOf(op)) THEN "Low"
               ELSE priority_label(cur.current_priority)]_vars

\* parse_guide has read 'Confirm truck rental' under the high-priority
\* section 'WEEK OF MOVE' and emitted it with Medium priority
C17_Witness ==
    /\ op = "parse_guide"
    /\ cur.current_priority = "high"
    /\ Len(out) >= 1
    /\ field(out[Len(out)], "Task Description") = "Confirm truck rental"
    /\ field(out[Len(out)], "Priority") = "Medium"

\* s ends with suffix
endswith(s, suffix) ==
    Len(s) >= Len(suffix) /\ SubSeq(s, Len(s) - Len(suffix) + 1, Len(s)) = suffix

\* how many days before moving day (negative: after) the recognized timeline
\* t of checklist parser o lies
days_before(o, t) ==
    IF o = "parse_moving_guide" THEN table_get(parse_moving_guide_timeline_map, t)
    ELSE IF endswith(t, " weeks before")
    THEN 7 * int_of(SubSeq(t, 1, Len(t) - Len(" weeks before")))
    ELSE IF startswith(t, "week ") /\ endswith(t, " after move")
    THEN 0 - 7 * int_of(SubSeq(t, 6, Len(t) - Len(" after move")))
    ELSE table_get(MovingGuideParser_timeline_mappings, t)

priority_rank(p) ==
    IF priority_label(p) = "High" THEN 3 ELSE IF priority_label(p) = "Medium" THEN 2 ELSE 1

\* the line read next is one the parser treats as a section header
reads_header ==
    /\ op \in ChecklistOps
    /\ pc = "loop"
    /\ i <= Len(lines)
    /\ strip(lines[i]) # ""
    /\ IF op = "parse_guide" THEN MovingGuideParser_extract_section_info(strip(lines[i])).found
       ELSE is_section_header_line(strip(lines[i]))

\* a header with a recognized timeline is read under a section with one
reads_next_timeline_header ==
    /\ reads_header
    /\ truthy(cur.current_timeline)
    /\ truthy(cur'.current_timeline)

\* C18 as stated: the default priority of a section header is monotone in
\* the timeline: of two recognized timeline headers the one that lies earlier
\* relative to moving day never gets a lower default priority than the later
\* one; and a section header line never itself produces a record.
C18_EarlierHeaderNeverLowerPriority ==
    [][/\ reads_header => out' = out
       /\ reads_next_timeline_header =>
             /\ days_before(op, cur.current_timeline) >= days_before(op, cur'.current_timeline)
                    => priority_rank(cur.current_priority) >= priority_rank(cur'.current_priority)
             /\ days_before(op, cur.current_timeline) <= days_before(op, cur'.current_timeline)
                    => priority_rank(cur.current_priority) <= priority_rank(cur'.current_priority)]_vars

\* the default priority of a header d days before moving day
default_priority_at(o, d) ==
    IF o = "parse_guide"
    THEN (IF d > 7 THEN "Medium" ELSE IF d >= -1 THEN "High" ELSE "Medium")
    ELSE (IF d > 10 THEN "Medium" ELSE IF d >= -1 THEN "High"
          ELSE IF d >= -7 THEN "Medium" ELSE "Low")

abs(n) == IF n < 0 THEN 0 - n ELSE n

same_side(d, e) == (d >= 0 /\ e >= 0) \/ (d <= 0 /\ e <= 0)

\* C18 amended: the default priority is highest around moving day, not for
\* the earliest header: High from one week (parse_moving_guide: 1-2 weeks)
\* before moving day to the day after, Medium earlier than that and for the
\* week(s) after the move, Low for 'weeks 2-4 after' in parse_moving_guide.
\* Of two recognized timeline headers on the same side of moving day, the one
\* closer to moving day never gets a lower default priority; and a section
\* header line never itself produces a record.
C18_HeaderCloserToMovingDayNeverLowerPriority ==
    /\ [](op \in ChecklistOps /\ truthy(cur.current_timeline) =>
             priority_label(cur.current_priority) =
                 default_priority_at(op, days_before(op, cur.current_timeline)))
    /\ [][/\ reads_header => out' = out
          /\ (/\ reads_next_timeline_header
              /\ same_side(days_before(op, cur.current_timeline),
                           days_before(op, cur'.current_timeline))) =>
                /\ abs(days_before(op, cur.current_timeline))
                       <= abs(days_before(op, cur'.current_timeline))
                       => priority_rank(cur.current_priority) >= priority_rank(cur'.current_priority)
                /\ abs(days_before(op, cur.current_timeline))
                       >= abs(days_before(op, cur'.current_timeline))
                       => priority_rank(cur.current_priority) <= priority_rank(cur'.current_priority)]_vars

\* parse_guide has read the header 'WEEK OF MOVE' (High) after a task of the
\* earlier section 'WEEKS 3-4 BEFORE MOVING DAY', whose default was Medium;
\* the header lines added no record
C18_Witness ==
    /\ op = "parse_guide"
    /\ pc = "loop"
    /\ i = 4
    /\ cur.current_timeline = "week of move"
    /\ cur.current_priority = "high"
    /\ Len(out) = 1
    /\ field(out[1], "Priority") = "Medium"
    /\ contains(field(out[1], "Notes"), "Timeline: 3 weeks before")

\* C19: every record emitted by parse_transactions has a non-empty
\* Description or a non-empty Amount: a partial record that holds only a
\* date, a vendor or a status is never emitted, neither at a block boundary
\* nor at the end of the input.
C19_EmittedHasDescriptionOrAmount ==
    op = "parse_transactions" =>
        /\ \A k \in 1..Len(out) :
              field(out[k], "Description") # "" \/ field(out[k], "Amount") # ""
        /\ pc = "done" => result.rows = out

\* the parse of 'Item: Kitchen Cabinets / Item: / Vendor: Home Depot /
\* Status: Paid' has ended with one record, the partial record holding the
\* vendor and the status left unemitted
C19_Witness ==
    /\ op = "parse_transactions"
    /\ pc = "done"
    /\ Len(result.rows) = 1
    /\ field(result.rows[1], "Description") = "Kitchen Cabinets"
    /\ dict_get(cur, "vendor") = "Home Depot"
    /\ dict_get(cur, "status") = "Paid"
    /\ dict_get(cur, "description") = None
    /\ dict_get(cur, "amount") = None

\* the value of a field of the transaction under construction after a step of
\* parse_transactions: that of the record the step emitted, if it emitted
\* one, else that of the partial record
value_after_step(key, column) ==
    IF Len(out') > Len(out) THEN field(out'[Len(out')], column)
    ELSE dict_get_default(cur', key, "")

has_amount_label(line) == search_any(line, {"cost:", "amount:", "price:"})

\* C20: in parse_transactions the Transaction Date of a block is the first
\* date matched on a line read since the previous record was emitted and a
\* later date never replaces it; a labelled cost/amount line replaces an
\* amount captured earlier, and an unlabelled '$' amount never replaces an
\* amount already captured.
C20_FirstDateLabelledAmountWins ==
    [][(/\ op = "parse_transactions"
        /\ pc = "loop"
        /\ i <= Len(lines)) =>
       (/\ truthy(dict_get(cur, "transaction_date")) =>
              value_after_step("transaction_date", "Transaction Date")
                  = dict_get(cur, "transaction_date")
        /\ (/\ ~truthy(dict_get(cur, "transaction_date"))
            /\ truthy(TransactionParser_extract_date(lines[i]))) =>
              value_after_step("transaction_date", "Transaction Date")
                  = TransactionParser_extract_date(lines[i])
        /\ (has_amount_label(lines[i]) /\ truthy(extract_amount(lines[i]))) =>
              value_after_step("amount", "Amount") = extract_amount(lines[i])
        /\ (~has_amount_label(lines[i]) /\ truthy(dict_get(cur, "amount"))) =>
              value_after_step("amount", "Amount") = dict_get(cur, "amount"))]_vars

\* the block 'Date: October 24, 2025 $10 / Invoice 10/25/2025 $20 /
\* Cost: $30 / Item: Tile' has been emitted with the first date and the
\* labelled amount: the second date and the unlabelled $20 were passed over
C20_Witness ==
    /\ op = "parse_transactions"
    /\ pc = "done"
    /\ lines = <<"Date: October 24, 2025 $10", "Invoice 10/25/2025 $20", "Cost: $30",
                 "Item: Tile">>
    /\ Len(result.rows) = 1
    /\ field(result.rows[1], "Transaction Date") = "October 24, 2025"
    /\ field(result.rows[1], "Amount") = "$30"
    /\ field(result.rows[1], "Description") = "Tile"

\* the indices below k of the lines parse_tasks recognizes as timeline headers
headers_before(k) ==
    {h \in 1..(k - 1) : truthy(TaskParser_extract_timeline(lines[h]))}

\* the timeline key of the most recent header read before line k, None when
\* no header has been read
active_timeline(k) ==
    IF headers_before(k) = {} THEN None
    ELSE TaskParser_extract_timeline(lines[SetMax(headers_before(k))])

\* C21: in parse_tasks a line recognized as a timeline header never adds a
\* task row, and a task row added at line i carries the 'Timeline:' note and
\* the due date of the most recent timeline header among the lines read
\* before it (empty Notes and empty Due Date when there is none), whatever
\* the interleaving of header and task lines.
C21_TaskCarriesMostRecentTimeline ==
    [][(/\ op = "parse_tasks"
        /\ pc = "loop"
        /\ i <= Len(lines)) =>
       (/\ truthy(TaskParser_extract_timeline(lines[i])) => out' = out
        /\ Len(out') > Len(out) =>
              /\ Len(out') = Len(out) + 1
              /\ field(out'[Len(out')], "Notes") =
                     (IF active_timeline(i) = None THEN ""
                      ELSE "Timeline: " \o active_timeline(i))
              /\ field(out'[Len(out')], "Due Date") =
                     (IF active_timeline(i) = None THEN ""
                      ELSE strftime(add_days(now,
                               table_get(TaskParser_timeline_mappings, active_timeline(i))))))]_vars

\* the three tasks of the timeline sample have been emitted, each with the
\* note of its own header, and none for the header lines
C21_Witness ==
    /\ op = "parse_tasks"
    /\ pc = "done"
    /\ Len(lines) = 6
    /\ Len(result.rows) = 3
    /\ field(result.rows[1], "Notes") = "Timeline: two weeks before"
    /\ field(result.rows[2], "Notes") = "Timeline: moving day"
    /\ field(result.rows[3], "Notes") = "Timeline: after moving"
    /\ field(result.rows[3], "Task Description") = "Unpack boxes"

\* the categories of table are tried in declaration order; the first one
\* with a keyword contained in text_lower is the answer, default if none
RECURSIVE earliest_declared(_, _, _)
earliest_declared(table, text_lower, default) ==
    IF table = <<>> THEN default
    ELSE IF \E k \in 1..Len(Head(table)[2]) : contains(text_lower, Head(table)[2][k])
    THEN Head(table)[1]
    ELSE earliest_declared(Tail(table), text_lower, default)

\* C22: each keyword classifier returns the earliest-declared category that
\* has a keyword contained in the lower-cased text and its documented default
\* when no keyword is contained: _infer_category ('Other') on the
\* Description and _infer_room ('General') and _infer_priority (Medium) on
\* the Task Description of every emitted record, _extract_status ('Pending')
\* on every 'Status:' line and _match_room_name (no room) on the name after
\* every 'Room:' label.
C22_EarliestDeclaredCategoryWins ==
    /\ [](/\ op = "parse_transactions" =>
               \A k \in 1..Len(out) :
                   field(out[k], "Category") =
                       earliest_declared(TransactionParser_category_keywords,
                                         lower(field(out[k], "Description")), "Other")
          /\ op = "parse_tasks" =>
               \A k \in 1..Len(out) :
                   /\ field(out[k], "Room") =
                          earliest_declared(TaskParser_room_keywords,
                                            lower(field(out[k], "Task Description")), "General")
                   /\ field(out[k], "Priority") =
                          earliest_declared(TaskParser_priority_keywords,
                                            lower(field(out[k], "Task Description")), "Medium"))
    /\ [][/\ (/\ op = "parse_transactions"
              /\ pc = "loop"
              /\ i <= Len(lines)
              /\ search_any(lines[i], {"status:"})) =>
                 value_after_step("status", "Status") =
                     earliest_declared(TransactionParser_status_keywords, lower(lines[i]), "Pending")
          /\ (/\ op = "parse_layout"
              /\ pc = "loop"
              /\ i <= Len(lines)
              /\ starts_with_room_label(lower(lines[i]))) =>
                 LET room == earliest_declared(LayoutParser_room_keywords,
                                 lower(strip(after_first(lines[i], ":"))), None)
                 IN  IF room # None THEN cur'.current_room = room
                     ELSE cur'.current_room = cur.current_room /\ out' = out]_vars

\* a description with keywords of three categories (Utilities, Permits,
\* Equipment Rental) has been classified as the earliest-declared one, and a
\* status line with keywords of Paid and Disputed as Paid
C22_Witness ==
    /\ op = "parse_transactions"
    /\ pc = "done"
    /\ Len(result.rows) = 1
    /\ field(result.rows[1], "Description") = "Rental of water heater license"
    /\ field(result.rows[1], "Category") = "Utilities"
    /\ field(result.rows[1], "Status") = "Paid"

\* the specification under which a running retry loop takes its next turn
\* (every turn changes the position or the attempt number)
LiveSpec == Spec /\ WF_<<pc, attempt>>(upload_with_retry)

\* the upload attempts among the sink calls of _upload_with_retry
attempts_made == Cardinality({k \in 1..Len(sink_calls) : sink_calls[k] # "sleep"})

retry_loop_ended == pc \in {"uploaded", "raised", "returned"}

\* C23: _upload_with_retry makes at most max_retries (3) attempts, makes no
\* attempt after one that succeeded, sleeps only between a failed attempt and
\* the next one, raises only after the third attempt has failed, and always
\* terminates: each turn of the loop either leaves it or raises the attempt
\* number, which stays below max_retries, and a running loop ends.
C23_RetryBoundedAndTerminates ==
    /\ [](/\ attempts_made <= 3
          /\ \A k \in 1..Len(sink_calls) :
                /\ sink_calls[k] = "ok" => k = Len(sink_calls)
                /\ sink_calls[k] = "sleep" =>
                      /\ k > 1
                      /\ sink_calls[k - 1] = "error"
                      /\ k < Len(sink_calls) \/ pc = "_upload_with_retry"
                /\ (sink_calls[k] = "error" /\ k < Len(sink_calls)) =>
                      sink_calls[k + 1] = "sleep"
          /\ (retry_loop_ended /\ sink_calls # <<>>) =>
                \/ sink_calls[Len(sink_calls)] = "ok"
                \/ sink_calls = <<"error", "sleep", "error", "sleep", "error">>
          /\ (pc = "raised" /\ sink_calls # <<>>) =>
                sink_calls = <<"error", "sleep", "error", "sleep", "error">>
          /\ (pc = "uploaded" /\ mode \in {"append", "replace"}) =>
                /\ sink_calls # <<>>
                /\ sink_calls[Len(sink_calls)] = "ok")
    /\ [][(pc = "_upload_with_retry" /\ pc' = "_upload_with_retry") =>
             /\ attempt' = attempt + 1
             /\ attempt' < 3]_vars
    /\ ((pc = "_upload_with_retry") ~> retry_loop_ended)

\* the third attempt has failed and the error is raised
C23_Witness ==
    /\ pc = "raised"
    /\ attempt = 2
    /\ sink_calls = <<"error", "sleep", "error", "sleep", "error">>

\* C24: upload_ocr_results, for an image mapped to 'Budget & Expenses' or
\* 'Task Tracker', returns False without calling the sink when the parser
\* returned zero records; and whenever the sink raises inside upload_dataframe
\* (before the upload or at the last attempt) the call returns False.
C24_ZeroRecordsAndSinkFailuresGiveFalse ==
    /\ [](/\ (/\ call = "upload_ocr_results"
              /\ worksheet_name \in {"Budget & Expenses", "Task Tracker"}
              /\ pc \notin {"loop", "done"}
              /\ Len(result.rows) = 0) =>
                 /\ pc = "returned"
                 /\ returned = FALSE
                 /\ worksheet = before
                 /\ sink_calls = <<>>
                 /\ calls = <<>>
          /\ pc = "returned" => returned \in BOOLEAN
          /\ (pc = "returned" /\ calls # <<>>) =>
                (returned = FALSE <=>
                    (sink_calls = <<>> \/ sink_calls[Len(sink_calls)] = "error")))
    /\ [][/\ (/\ call = "upload_ocr_results"
              /\ op \in {"parse_transactions", "parse_tasks"}
              /\ pc = "done"
              /\ Len(result.rows) = 0) =>
                 /\ pc' = "returned"
                 /\ returned' = FALSE
                 /\ worksheet' = worksheet
          /\ pc = "raised" => (pc' = "returned" /\ returned' = FALSE)]_vars

\* a text with no task sent to the Task Tracker: nothing is written
C24_Witness ==
    /\ call = "upload_ocr_results"
    /\ worksheet_name = "Task Tracker"
    /\ text # ""
    /\ pc = "returned"
    /\ Len(result.rows) = 0
    /\ returned = FALSE
    /\ worksheet # <<>>

\* the data rows of the uploads calls[1..n], in call order
RECURSIVE uploaded_rows(_)
uploaded_rows(n) ==
    IF n = 0 THEN <<>> ELSE uploaded_rows(n - 1) \o Tail(calls[n].data)

\* the worksheet was empty and every call so far was a successful append
only_successful_appends ==
    /\ calls # <<>>
    /\ calls[1].before = <<>>
    /\ \A k \in 1..Len(calls) : calls[k].mode = "append" /\ calls[k].returned = TRUE

\* C25: after any sequence of successful append-mode upload_dataframe calls on
\* an initially empty worksheet, the worksheet is the header row of the first
\* upload followed by the data rows of all uploads in call order; an upload
\* that finds rows on the worksheet appends its data rows only.
C25_HeaderOnceThenRowsInCallOrder ==
    /\ []((pc = "returned" /\ only_successful_appends) =>
             /\ worksheet = <<Head(calls[1].data)>> \o uploaded_rows(Len(calls))
             /\ \A k \in 2..Len(worksheet) : worksheet[k] # worksheet[1])
    /\ [][(pc = "upload_dataframe" /\ mode = "append" /\ pc' = "_upload_with_retry") =>
             IF worksheet = <<>>
             THEN append' = FALSE /\ Len(values') = Len(df.rows) + 1
             ELSE append' = TRUE /\ Len(values') = Len(df.rows)]_vars

\* two uploads, the first with one row and the second with two
C25_Witness ==
    /\ pc = "returned"
    /\ only_successful_appends
    /\ Len(calls) = 2
    /\ worksheet = << <<"Room", "Task Description">>,
                      <<"Kitchen", "Fix sink">>,
                      <<"Bathroom", "Paint wall">>,
                      <<"Outdoor", "Mow lawn">> >>

\* C27: when a replace-mode upload_dataframe call returns False because
\* every upload attempt failed, the worksheet holds what it held before the
\* call.
C27_FailedReplaceKeepsContents ==
    (/\ pc = "returned"
     /\ calls # <<>>
     /\ calls[Len(calls)].mode = "replace"
     /\ calls[Len(calls)].returned = FALSE
     /\ sink_calls = <<"error", "sleep", "error", "sleep", "error">>) =>
        worksheet = calls[Len(calls)].before

\* C26: in parse_guide every emitted task whose Notes name a timeline
\* ('Timeline: <phrase>') has a non-empty Due Date.
C26_ActiveTimelineGivesDueDate ==
    op = "parse_guide" =>
        \A k \in 1..Len(out) :
            contains(field(out[k], "Notes"), "Timeline: ") =>
                field(out[k], "Due Date") # ""

\* the lines among lines[1..n] that opened a room block
opened_blocks(n) ==
    Cardinality({k \in 1..n : truthy(LayoutParser_extract_room(lines[k]))})

\* C28: parse_layout never returns zero records: it returns one record per
\* line that opened a room block, each with a room name, or exactly one
\* fallback record with a blank room name when no line opened one. While it
\* reads, the records emitted plus the open block are the blocks opened so
\* far.
C28_OneRecordPerBlockOrOneFallback ==
    op = "parse_layout" =>
        /\ pc = "loop" =>
              /\ Len(out) + (IF truthy(cur.current_room) THEN 1 ELSE 0) = opened_blocks(i - 1)
              /\ \A k \in 1..Len(out) : field(out[k], "Room/Area Name") # ""
        /\ pc = "done" =>
              /\ Len(result.rows) >= 1
              /\ result.rows = out
              /\ IF opened_blocks(Len(lines)) = 0
                 THEN /\ Len(out) = 1
                      /\ field(out[1], "Room/Area Name") = ""
                 ELSE /\ Len(out) = opened_blocks(Len(lines))
                      /\ \A k \in 1..Len(out) : field(out[k], "Room/Area Name") # ""

\* the empty text gives the fallback record alone
C28_Witness ==
    /\ op = "parse_layout"
    /\ pc = "done"
    /\ text = ""
    /\ Len(result.rows) = 1
    /\ field(result.rows[1], "Room/Area Name") = ""

\* the dropdown lists declared by the parser classes
TransactionParser_VALID_CATEGORIES ==
    {"Materials", "Labor", "Utilities", "Property Tax", "Insurance", "Permits",
     "Equipment Rental", "Other"}

TransactionParser_VALID_STATUSES == {"Pending", "Paid", "Reimbursed", "Disputed"}

TaskParser_VALID_ROOMS ==
    {"Kitchen", "Dining Room", "Florida Room", "Living Room", "Laundry Room",
     "Master Bedroom", "Mom's Bedroom", "Erik's Bedroom", "Bathroom", "Garage",
     "Closet", "Pantry", "General"}

TaskParser_VALID_PRIORITIES == {"High", "Medium", "Low"}

LayoutParser_VALID_ROOMS ==
    {"Kitchen", "Dining Room", "Florida Room", "Living Room", "Laundry Room",
     "Master Bedroom", "Mom's Bedroom", "Erik's Bedroom", "Guest Bathroom",
     "Garage", "Linen Closet", "Backyard Area", "Frontyard Area"}

MovingGuideParser_VALID_ROOMS == TaskParser_VALID_ROOMS

\* the labels of MovingGuideParser.VALID_PRIORITIES
guide_priority_labels ==
    {MovingGuideParser_VALID_PRIORITIES[k][2] :
        k \in 1..Len(MovingGuideParser_VALID_PRIORITIES)}

\* C29: every categorical value of an emitted record is in the dropdown list
\* its parser declares: transaction Category and Status, task Room and
\* Priority with Status 'Not Started', layout Room/Area Name (or empty).
C29_CategoricalValuesAreDropdownValues ==
    \A k \in 1..Len(out) :
        /\ op = "parse_transactions" =>
              /\ field(out[k], "Category") \in TransactionParser_VALID_CATEGORIES
              /\ field(out[k], "Status") \in TransactionParser_VALID_STATUSES
        /\ op = "parse_tasks" =>
              /\ field(out[k], "Room") \in TaskParser_VALID_ROOMS
              /\ field(out[k], "Priority") \in TaskParser_VALID_PRIORITIES
              /\ field(out[k], "Status") = "Not Started"
        /\ op = "parse_guide" =>
              /\ field(out[k], "Room") \in MovingGuideParser_VALID_ROOMS
              /\ field(out[k], "Priority") \in guide_priority_labels
              /\ field(out[k], "Status") = "Not Started"
        /\ op = "parse_layout" =>
              field(out[k], "Room/Area Name") \in LayoutParser_VALID_ROOMS \cup {""}

\* a task filed under a room and a priority found by keyword
C29_Witness ==
    /\ op = "parse_tasks"
    /\ pc = "done"
    /\ text = "Fix the garage closet asap, optional"
    /\ Len(out) = 1
    /\ field(out[1], "Room") = "Garage"
    /\ field(out[1], "Priority") = "High"
    /\ field(out[1], "Status") = "Not Started"

\* the lines of parse_layout that opened a room block
opening_lines == {k \in 1..Len(lines) : truthy(LayoutParser_extract_room(lines[k]))}

\* the k-th of them
opening(k) ==
    CHOOSE j \in opening_lines : Cardinality({x \in opening_lines : x <= j}) = k

\* the last line of the block opened at line s
block_end(s) ==
    IF \E j \in opening_lines : j > s
    THEN SetMin({j \in opening_lines : j > s}) - 1
    ELSE Len(lines)

\* the partial record built from the line s that opens a block and the lines
\* s+1..e after it, and from nothing else
RECURSIVE block_fold(_, _)
block_fold(s, e) ==
    IF e <= s THEN [NoRoom EXCEPT !.current_room = LayoutParser_extract_room(lines[s])]
    ELSE layout_fields(block_fold(s, e - 1), lines[e])

\* the partial transaction built from the lines a..e and from nothing else
RECURSIVE segment_fold(_, _)
segment_fold(a, e) ==
    IF e < a THEN EmptyDict
    ELSE transaction_fields(segment_fold(a, e - 1), lines[e])

\* line k ends a transaction whose partial record is data
emits_at(k, data) ==
    transaction_complete(lines, k, data) /\ has_description_or_amount(data)

\* the first line of the segment alive once lines 1..k are read: the line
\* after the last one that emitted a record
RECURSIVE segment_start(_)
segment_after(s, k) == IF emits_at(k, segment_fold(s, k)) THEN k + 1 ELSE s

segment_start(k) == IF k = 0 THEN 1 ELSE segment_after(segment_start(k - 1), k)

\* what reading line k does to a segment that starts at line s
segment_emits(s, k) ==
    IF emits_at(k, segment_fold(s, k))
    THEN /\ out' = Append(out, TransactionParser_create_transaction_record(
                                   segment_fold(s, k), source_file))
         /\ cur' = EmptyDict
    ELSE /\ out' = out
         /\ cur' = segment_fold(s, k)

\* C30: one partial record is alive at a time and it is reset when a record
\* is emitted. In parse_transactions the partial record is built from the
\* lines read since the last emission and a record from those lines and the
\* line that emits it; in parse_layout the partial record and every record
\* are built from the line that opened the block and the lines of the block,
\* and before the first room block the partial record stays empty.
C30_RecordBuiltFromItsOwnLines ==
    /\ [](/\ (op = "parse_transactions" /\ pc = "loop") =>
                cur = segment_fold(segment_start(i - 1), i - 1)
          /\ (op = "parse_layout" /\ pc = "loop") =>
                /\ IF \E j \in opening_lines : j < i
                   THEN cur = block_fold(SetMax({j \in opening_lines : j < i}), i - 1)
                   ELSE cur = NoRoom
                /\ \A k \in 1..Len(out) :
                      out[k] = LayoutParser_create_layout_record(
                                   block_fold(opening(k), block_end(opening(k))), source_file)
          /\ (op = "parse_layout" /\ pc = "done" /\ opening_lines # {}) =>
                \A k \in 1..Len(out) :
                    out[k] = LayoutParser_create_layout_record(
                                 block_fold(opening(k), block_end(opening(k))), source_file))
    /\ [][/\ (op = "parse_transactions" /\ pc = "loop" /\ i <= Len(lines)) =>
                segment_emits(segment_start(i - 1), i)
          /\ (op = "parse_layout" /\ pc = "loop" /\ i <= Len(lines)
                 /\ truthy(LayoutParser_extract_room(lines[i]))) =>
                /\ cur' = [NoRoom EXCEPT !.current_room = LayoutParser_extract_room(lines[i])]
                /\ Len(out') = Len(out) + (IF truthy(cur.current_room) THEN 1 ELSE 0)]_vars

\* lines before the first room, then two blocks: the second record holds
\* nothing of the first
C30_Witness ==
    /\ op = "parse_layout"
    /\ pc = "done"
    /\ text = "Dimensions: 12' x 15'\nRoom: Kitchen\nMaster Bathroom"
    /\ Len(out) = 2
    /\ field(out[1], "Measurements") = ""
    /\ field(out[2], "Room/Area Name") = "Master Bedroom"

====
